---- MODULE Spec2Model ----
(***************************************************************************)
(* A model of ejsonschema's extension-aware validator                      *)
(* (python/ejsonschema/validate.py, class ExtValidator) together with the  *)
(* schema loader it resolves identifiers through                           *)
(* (python/ejsonschema/schemaloader.py, class SchemaLoader).               *)
(*                                                                         *)
(* Each public operation of ExtValidator is one action.  An operation is   *)
(* called when the orchestrator is idle, runs to completion, and leaves    *)
(* its arguments in `call`, its outcome in `result` and the external       *)
(* capabilities it used, in order, in `log`; TakeResult is the caller      *)
(* consuming the outcome.                                                  *)
(*                                                                         *)
(* The JSON Schema engine (jsonschema / referencing) is an external        *)
(* collaborator.  A schema body is abstracted to its identifying           *)
(* properties, whether it passes its meta-schema, and a sequence of        *)
(* keyword checks, each the set of content classes it accepts; an          *)
(* instance node carries the content class `val` those checks look at.     *)
(***************************************************************************)
EXTENDS Integers, Sequences, FiniteSets, TLC

(***************************************************************************)
(* Bounds of the model.                                                    *)
(***************************************************************************)
MaxIds == 2        \* longest extension marker sequence in an instance
MaxKids == 1       \* objects nested under the root of an instance
MaxEntries == 2    \* entries of a mapping given to add_locations
MaxFiles == 2      \* files a directory holds besides its manifest
MaxLine == 3       \* characters of a line of a location file

(***************************************************************************)
(* JSON values.  Every value is a record of the same shape so that values  *)
(* of different JSON types can be compared.  A string is a sequence of     *)
(* tokens, "#" being a token of its own, so that the string operations of  *)
(* the code (rstrip, urldefrag) are computed and not assumed.              *)
(***************************************************************************)
None == [t |-> "none", s |-> <<>>, items |-> <<>>]
Str(u) == [t |-> "str", s |-> u, items |-> <<>>]
Num == [t |-> "int", s |-> <<>>, items |-> <<>>]
List(xs) == [t |-> "list", s |-> <<>>, items |-> xs]
Dict == [t |-> "dict", s |-> <<>>, items |-> <<>>]

\* Python truthiness: `not v` for None, "", [] (Dict stands for a non-empty
\* object, Num for a non-zero number)
Falsy(v) ==
    \/ v.t = "none"
    \/ v.t = "str" /\ v.s = <<>>
    \/ v.t = "list" /\ v.items = <<>>

\* dict.get(key): the value, or None when the key is absent
get(obj, key) == IF key \in DOMAIN obj THEN obj[key] ELSE None

SCHEMATAG == "schema"
EXTSCHEMAS == "extensionSchemas"

EXTSCHEMA_URIS ==
    { <<"http://mgi.nist.gov/mgi-json-schema/v0.1">>,
      <<"https://www.nist.gov/od/dm/enhanced-json-schema/v0.1">>,
      <<"https://data.nist.gov/od/dm/enhanced-json-schema/v0.1">>,
      <<"https://data.nist.gov/od/dm/json-extension-schemas/v0.2">>,
      <<"https://data.nist.gov/od/dm/json-extension-schemas/v0.2/draft04">> }

(***************************************************************************)
(* Schema identifiers and schema bodies of the model.                      *)
(***************************************************************************)
UA == <<"urn:a">>
UB == <<"urn:b">>
UC == <<"urn:c">>
UM == <<"urn:missing">>
\* urn:a with a fragment that names nothing in its schema
UF == <<"urn:a", "#", "nowhere">>

Body(name, props, ok, checks) ==
    [name |-> name, props |-> props, ok |-> ok, checks |-> checks]

SchemaA == Body("A", ("id" :> Str(UA)), TRUE, <<{0}>>)
SchemaA2 == Body("A2", ("$id" :> Str(UA) @@ "id" :> Str(UB)), TRUE, <<{0, 1}, {0}>>)
SchemaBad == Body("Bad", ("id" :> Str(UC)), FALSE, <<{0}>>)
SchemaNoId == Body("NoId", <<>>, TRUE, <<{1}>>)

(***************************************************************************)
(* Error records.                                                          *)
(***************************************************************************)
Err(kind, msg, ref, by, on) ==
    [kind |-> kind, msg |-> msg, ref |-> ref, by |-> by, on |-> on]

VARIABLES
    ejsprefix,        \* the ejsprefix argument of the constructor
    epfx,             \* ExtValidator._epfx
    loader_map,       \* SchemaLoader._map of ExtValidator._loader
    schemaRegistry,   \* resources of ExtValidator._schemaRegistry
    validators,       \* ExtValidator._validators
    call,             \* the operation in progress and its arguments
    result,           \* its outcome
    log,              \* the capabilities it used, in order
    overridden,       \* history: the identifiers load_schema has loaded twice
    self_map,         \* SchemaLoader._map of the loader operated on
    other_map,        \* SchemaLoader._map of the loader it copies locations from
    lcall,            \* the SchemaLoader operation in progress and its arguments
    lresult,          \* its outcome
    files,            \* the files under the schema directory, by relative path
    dcall,            \* the directory operation in progress and its arguments
    dresult,          \* its outcome
    stream,           \* the content of the location file being read
    parsed            \* the read in progress, its arguments and its outcome

vars == <<ejsprefix, epfx, loader_map, schemaRegistry, validators, call, result, log,
          overridden, self_map, other_map, lcall, lresult, files, dcall, dresult, stream,
          parsed>>

\* the state of the validator, of a schema loader, of a schema directory and
\* of a location file parse
validatorVars == <<ejsprefix, epfx, loader_map, schemaRegistry, validators, call, result,
                   log, overridden>>
loaderVars == <<self_map, other_map, lcall, lresult>>
dirVars == <<files, dcall, dresult>>
locVars == <<stream, parsed>>

(***************************************************************************)
(* String operations of the code, computed on token sequences.             *)
(***************************************************************************)
RECURSIVE rstrip(_)
\* str.rstrip('#'): every trailing "#" is removed
rstrip(u) ==
    IF u # <<>> /\ u[Len(u)] = "#" THEN rstrip(SubSeq(u, 1, Len(u) - 1)) ELSE u

\* position of the first "#" of u, or 0
FirstHash(u) ==
    IF \E i \in 1..Len(u) : u[i] = "#"
    THEN CHOOSE i \in 1..Len(u) : u[i] = "#" /\ \A j \in 1..(i - 1) : u[j] # "#"
    ELSE 0

\* a variant that takes the whole of uri for the url
_spliturifrag_whole(uri) == <<uri, <<>>>>

\* urllib.parse.urldefrag: <<url without fragment, fragment>>
_spliturifrag(uri) ==
    IF FirstHash(uri) = 0
    THEN <<uri, <<>>>>
    ELSE <<SubSeq(uri, 1, FirstHash(uri) - 1), SubSeq(uri, FirstHash(uri) + 1, Len(uri))>>

(***************************************************************************)
(* The external engine, seen from the orchestrator.                        *)
(***************************************************************************)
\* SchemaLoader.load_schema through BaseSchemaLoad.__call__: the body the
\* loader bound to uri produces; an unbound uri is a KeyError
loader_has(lmap, uri) == uri \in DOMAIN lmap

\* Registry.get_or_retrieve(uri): a resource added by with_resource, else
\* the loader's; any failure of the loader surfaces as Unretrievable
get_or_retrieve(reg, lmap, uri) ==
    IF uri \in DOMAIN reg THEN [found |-> TRUE, schema |-> reg[uri]]
    ELSE IF loader_has(lmap, uri) THEN [found |-> TRUE, schema |-> lmap[uri]]
    ELSE [found |-> FALSE, schema |-> SchemaNoId]

\* Registry.with_resource(uri, resource): referencing keys resources by the
\* uri without its empty fragment
with_resource(reg, uri, schema) ==
    [u \in (DOMAIN reg) \cup {rstrip(uri)} |-> IF u = rstrip(uri) THEN schema ELSE reg[u]]

\* a variant whose meta-schema check finds nothing
scherrs_none(schema, uri) == <<>>

\* cls(cls.META_SCHEMA).iter_errors(schema), each wrapped as a SchemaError
scherrs(schema, uri) ==
    IF schema.ok THEN <<>> ELSE <<Err("SchemaError", "", uri, schema.name, "")>>

RECURSIVE iter_errors_from(_, _, _, _)
iter_errors_from(val, instance, uri, k) ==
    IF k > Len(val.checks) THEN <<>>
    ELSE (IF instance.val \in val.checks[k]
          THEN <<>>
          ELSE <<Err("ValidationError", "keyword " \o ToString(k), uri, val.name, instance.at)>>)
         \o iter_errors_from(val, instance, uri, k + 1)

\* val.iter_errors(instance): one ValidationError for each keyword check of
\* the schema that the instance's content violates, in schema order
iter_errors(val, instance, uri) == iter_errors_from(val, instance, uri, 1)

Ev(ev, uri, at) == [ev |-> ev, uri |-> uri, at |-> at]

(***************************************************************************)
(* ExtValidator.validate_against.  st = [out, validators, log] is the      *)
(* state the loop over schemauris threads through.                         *)
(***************************************************************************)
\* the errors validate_against makes itself; `on` records the instance the
\* identifier was wanted for
MissingSchemaDocument(urib, instance) == Err("MissingSchemaDocument", "", urib, "", instance.at)
Unresolvable(uri, instance) == Err("Unresolvable", "", uri, "", instance.at)

\* a variant that reports a missing schema document whatever strict is
report_missing_always(out, ex, strict) == out \o <<ex>>

\* `if strict: out.append(ex)`
report_missing(out, ex, strict) == IF strict THEN out \o <<ex>> ELSE out

\* one pass of the body of `for uri in schemauris`
validate_against_uri(st, reg, lmap, instance, uri, strict) ==
    LET cached == uri \in DOMAIN st.validators
        urib == _spliturifrag(uri)[1]
        frag == _spliturifrag(uri)[2]
        base == get_or_retrieve(reg, lmap, urib)
        full == get_or_retrieve(reg, lmap, uri)
        schema == IF frag # <<>> THEN full.schema ELSE base.schema
        log1 == st.log \o <<Ev("retrieve", urib, instance.at)>>
        log2 == IF frag # <<>> THEN log1 \o <<Ev("retrieve", uri, instance.at)>> ELSE log1
        log3 == log2 \o <<Ev("check_schema", uri, instance.at)>>
        run(val, lg) ==
            [out |-> st.out \o iter_errors(val, instance, uri),
             validators |-> [u \in (DOMAIN st.validators) \cup {uri} |->
                                 IF u = uri THEN val ELSE st.validators[u]],
             log |-> lg \o <<Ev("iter_errors", uri, instance.at)>>]
    IN  IF cached THEN run(st.validators[uri], st.log)
        ELSE IF ~base.found
        THEN [st EXCEPT !.log = log1,
                        !.out = report_missing(@, MissingSchemaDocument(urib, instance), strict)]
        ELSE IF frag # <<>> /\ ~full.found
        THEN [st EXCEPT !.log = log2, !.out = @ \o <<Unresolvable(uri, instance)>>]
        ELSE IF scherrs(schema, uri) # <<>>
        THEN [st EXCEPT !.log = log3, !.out = @ \o scherrs(schema, uri)]
        ELSE run(schema, log3)

RECURSIVE validate_against_from(_, _, _, _, _, _, _)
validate_against_from(st, reg, lmap, instance, schemauris, strict, i) ==
    IF i > Len(schemauris) THEN st
    ELSE validate_against_from(
             validate_against_uri(st, reg, lmap, instance, schemauris[i], strict),
             reg, lmap, instance, schemauris, strict, i + 1)

\* a variant that starts from an empty validator cache
validate_against_fresh(vals, lg, reg, lmap, instance, schemauris, strict) ==
    validate_against_from([out |-> <<>>, validators |-> <<>>, log |-> lg],
                          reg, lmap, instance, schemauris, strict, 1)

\* validate_against(instance, schemauris, strict) run with the validator
\* cache vals and the log lg: its out, and the cache and log it leaves
validate_against(vals, lg, reg, lmap, instance, schemauris, strict) ==
    validate_against_from([out |-> <<>>, validators |-> vals, log |-> lg],
                          reg, lmap, instance, schemauris, strict, 1)

(***************************************************************************)
(* Instance documents: a root object and the objects nested in its         *)
(* "applicability" array.  Every object is                                 *)
(* [at, val, props, kids]: its location in the document, its content       *)
(* class, its special properties and its nested objects.                   *)
(***************************************************************************)
Obj(at, val, props, kids) == [at |-> at, val |-> val, props |-> props, kids |-> kids]

\* a traversal that numbers the items of an array from one
find_in_kids_fromone(kids, name, i) ==
    LET at == {j \in i..Len(kids) : name \in DOMAIN kids[j].props}
        nth[n \in 0..Len(kids)] ==
            IF n = 0 THEN <<>>
            ELSE nth[n - 1]
                 \o (IF n \in at THEN << <<"/applicability/" \o ToString(n), kids[n]>> >>
                     ELSE <<>>)
    IN  nth[Len(kids)]

RECURSIVE find_in_kids(_, _, _)
find_in_kids(kids, name, i) ==
    IF i > Len(kids) THEN <<>>
    ELSE (IF name \in DOMAIN kids[i].props
          THEN << <<"/applicability/" \o ToString(i - 1), kids[i]>> >>
          ELSE <<>>)
         \o find_in_kids(kids, name, i + 1)

\* Instance.find_obj_by_prop(name): <<pointer, object>> for every object of
\* the document that owns the property, root first, then depth first
find_obj_by_prop(doc, name) ==
    (IF name \in DOMAIN doc.props THEN << <<"/", doc>> >> ELSE <<>>)
    \o find_in_kids(doc.kids, name, 1)

\* Instance(instance, extschemastag).find_extended_objs()
find_extended_objs(doc, extschemastag) == find_obj_by_prop(doc, extschemastag)

\* Instance.extract(pointer): the node the pointer addresses, "/" being
\* the root; a segment that does not exist is a failure
extract(doc, pointer) ==
    IF pointer = "/" THEN [how |-> "return", v |-> doc]
    ELSE IF \E i \in 1..Len(doc.kids) : pointer = "/applicability/" \o ToString(i - 1)
    THEN [how |-> "return",
          v |-> doc.kids[CHOOSE i \in 1..Len(doc.kids) :
                            pointer = "/applicability/" \o ToString(i - 1)]]
    ELSE [how |-> "raise", v |-> "NotFound"]

(***************************************************************************)
(* ExtValidator.is_extschema_schema (a Mapping is a value with props)      *)
(***************************************************************************)
\* is_extschema_schema with `id` consulted only when `$id` is absent
is_extschema_schema_absent(pfx, instance) ==
    "props" \in DOMAIN instance /\
    LET schemaid == IF "$id" \in DOMAIN instance.props
                    THEN get(instance.props, "$id")
                    ELSE get(instance.props, "id")
    IN  /\ schemaid.t = "str"
        /\ schemaid.s \in EXTSCHEMA_URIS
        /\ (pfx \o EXTSCHEMAS) \in DOMAIN instance.props

is_extschema_schema(pfx, instance) ==
    "props" \in DOMAIN instance /\
    LET schemaid == IF ~Falsy(get(instance.props, "$id"))
                    THEN get(instance.props, "$id")
                    ELSE get(instance.props, "id")
    IN  /\ schemaid.t = "str"
        /\ schemaid.s \in EXTSCHEMA_URIS
        /\ (pfx \o EXTSCHEMAS) \in DOMAIN instance.props

(***************************************************************************)
(* Outcomes of an operation.                                               *)
(***************************************************************************)
Returned(out) == [how |-> "return", t |-> "list", errs |-> out]
ReturnedValue(ex) == [how |-> "return", t |-> "error", errs |-> <<ex>>]
ReturnedNone == [how |-> "return", t |-> "none", errs |-> <<>>]
Raised(ex) == [how |-> "raise", t |-> "error", errs |-> <<ex>>]
NoResult == [how |-> "none", t |-> "none", errs |-> <<>>]

Done(res, st) == [result |-> res, validators |-> st.validators, log |-> st.log]

\* the schema identifiers of a marker sequence
uris_of(items) == [i \in 1..Len(items) |-> items[i].s]

(***************************************************************************)
(* ExtValidator.validate                                                   *)
(***************************************************************************)
\* the first item of a marker sequence that is not a str, or 0
FirstNonStr(items) ==
    IF \E i \in 1..Len(items) : items[i].t # "str"
    THEN CHOOSE i \in 1..Len(items) :
             items[i].t # "str" /\ \A j \in 1..(i - 1) : items[j].t = "str"
    ELSE 0

\* a variant that falls back to the "@" form of the tag as well
base_schema_anytag(pfx, instance, schemauri) ==
    LET base1 == IF ~Falsy(schemauri) THEN schemauri
                 ELSE get(instance.props, pfx \o SCHEMATAG)
        base2 == IF Falsy(base1) /\ pfx # "$" THEN get(instance.props, "$" \o SCHEMATAG)
                 ELSE base1
    IN  IF Falsy(base2) THEN get(instance.props, "@" \o SCHEMATAG) ELSE base2

\* baseSchema: schemauri, else the instance's <prefix>schema, else (for a
\* prefix other than "$") its $schema
base_schema(pfx, instance, schemauri) ==
    LET base1 == IF ~Falsy(schemauri) THEN schemauri
                 ELSE get(instance.props, pfx \o SCHEMATAG)
    IN  IF Falsy(base1) /\ pfx # "$" THEN get(instance.props, "$" \o SCHEMATAG) ELSE base1

nobase(schematag) ==
    Err("ValidationError", "Base schema (" \o schematag \o ") not specified", <<>>, "", "/")

\* a variant that lets a single error pass
must_raise_second(raiseex, out) == raiseex /\ Len(out) > 1

\* `raiseex and len(out) > 0`
must_raise(raiseex, out) == raiseex /\ Len(out) > 0

\* a variant that looks at extensions whatever the caller asked for
wants_extensions_always(minimally) == TRUE

\* `if not minimally`
wants_extensions(minimally) == ~minimally

\* a variant that takes every object-valued marker for a declaration
marker_use_anydict(marker, is_extschema) ==
    IF marker.t # "list"
    THEN IF marker.t # "dict" THEN "invalid" ELSE "ignore"
    ELSE "validate"

\* how the loop treats the marker of a marked object: "invalid" (not an
\* array), "ignore" (the declaration of the marker in the extension schema
\* schema) or "validate"
marker_use(marker, is_extschema) ==
    IF marker.t # "list"
    THEN IF ~is_extschema \/ marker.t # "dict" THEN "invalid" ELSE "ignore"
    ELSE "validate"

\* a variant that applies the schemas of a marker to the whole instance
marked_portion_whole(instance, obj) == instance

\* the portion of the instance the schemas of a marker are applied to
marked_portion(instance, obj) == obj

\* the strictness the schemas of a marker are resolved with
marked_strict(strict) == strict

RECURSIVE validate_extensions(_, _, _, _, _, _, _, _, _, _)
\* `for ptr in extensions`, from the j-th marked object on
validate_extensions(st, reg, lmap, instance, extensions, extschemas, is_extschema, strict, raiseex, j) ==
    IF j > Len(extensions) THEN Done(Returned(st.out), st)
    ELSE
    LET ptr == extensions[j][1]
        obj == extensions[j][2]
        marker == obj.props[extschemas]
        seen == [st EXCEPT !.log = @ \o <<Ev("subtree", <<>>, ptr)>>]
        notarray == Err("ValidationError", "invalid value type (not an array)", <<>>, "", ptr)
        baditem == Err("ValidationError", "invalid array item type", <<>>, "", ptr)
        after == validate_against(seen.validators, seen.log, reg, lmap,
                                  marked_portion(instance, obj), uris_of(marker.items),
                                  marked_strict(strict))
        st2 == [out |-> st.out \o after.out, validators |-> after.validators,
                log |-> after.log]
    IN  CASE marker_use(marker, is_extschema) = "invalid" ->
                 IF raiseex THEN Done(Raised(notarray), seen)
                 ELSE Done(Returned(st.out \o <<notarray>>), seen)
          [] marker_use(marker, is_extschema) = "ignore" ->
                 validate_extensions(seen, reg, lmap, instance, extensions, extschemas,
                                     is_extschema, strict, raiseex, j + 1)
          [] OTHER ->
                 IF FirstNonStr(marker.items) # 0
                 THEN IF raiseex THEN Done(Raised(baditem), seen)
                      ELSE Done(ReturnedValue(baditem), seen)
                 ELSE IF must_raise(raiseex, st2.out) THEN Done(Raised(st2.out[1]), st2)
                 ELSE validate_extensions(st2, reg, lmap, instance, extensions, extschemas,
                                          is_extschema, strict, raiseex, j + 1)

validate(pfx, vals, reg, lmap, instance, minimally, strict, schemauri, raiseex) ==
    LET schematag == pfx \o SCHEMATAG
        extschemas == pfx \o EXTSCHEMAS
        baseSchema == base_schema(pfx, instance, schemauri)
        st0 == [out |-> <<>>, validators |-> vals, log |-> <<>>]
        st1 == validate_against(vals, <<>>, reg, lmap, instance, <<baseSchema.s>>, TRUE)
        st2 == [st1 EXCEPT !.log = @ \o <<Ev("find_extended_objs", <<>>, "/")>>]
    IN  IF Falsy(baseSchema) THEN Done(Raised(nobase(schematag)), st0)
        ELSE IF must_raise(raiseex, st1.out) THEN Done(Raised(st1.out[1]), st1)
        ELSE IF ~wants_extensions(minimally) THEN Done(Returned(st1.out), st1)
        ELSE validate_extensions(st2, reg, lmap, instance,
                                 find_extended_objs(instance, extschemas), extschemas,
                                 is_extschema_schema(pfx, instance), strict, raiseex, 1)

(***************************************************************************)
(* ExtValidator.load_schema                                                *)
(***************************************************************************)
NoId == [kind |-> "ValueError", msg |-> "No id property found", ref |-> <<>>, by |-> "",
         on |-> ""]

\* a variant that adds the schema before it checks it
load_schema_unchecked(reg, schema, uri) ==
    LET uri1 == IF Falsy(uri) THEN get(schema.props, "$id") ELSE uri
        uri2 == IF Falsy(uri1) THEN get(schema.props, "id") ELSE uri1
        checked == <<Ev("check_schema", uri2.s, "")>>
    IN  IF Falsy(uri2)
        THEN [result |-> Raised(NoId), uri |-> <<>>, schemaRegistry |-> reg, log |-> <<>>]
        ELSE IF scherrs(schema, uri2.s) # <<>>
        THEN [result |-> Raised(scherrs(schema, uri2.s)[1]), uri |-> uri2.s,
              schemaRegistry |-> with_resource(reg, uri2.s, schema), log |-> checked]
        ELSE [result |-> ReturnedNone, uri |-> uri2.s,
              schemaRegistry |-> with_resource(reg, uri2.s, schema), log |-> checked]

load_schema(reg, schema, uri) ==
    LET uri1 == IF Falsy(uri) THEN get(schema.props, "$id") ELSE uri
        uri2 == IF Falsy(uri1) THEN get(schema.props, "id") ELSE uri1
        checked == <<Ev("check_schema", uri2.s, "")>>
    IN  IF Falsy(uri2)
        THEN [result |-> Raised(NoId), uri |-> <<>>, schemaRegistry |-> reg, log |-> <<>>]
        ELSE IF scherrs(schema, uri2.s) # <<>>
        THEN [result |-> Raised(scherrs(schema, uri2.s)[1]), uri |-> uri2.s,
              schemaRegistry |-> reg, log |-> checked]
        ELSE [result |-> ReturnedNone, uri |-> uri2.s,
              schemaRegistry |-> with_resource(reg, uri2.s, schema), log |-> checked]

(***************************************************************************)
(* ExtValidator.__init__                                                   *)
(***************************************************************************)
Absent == "(absent)"
NoneArg == "(None)"

\* the prefix __init__ stores for the ejsprefix argument it is given
init_epfx(arg) == IF arg = Absent \/ arg = NoneArg THEN "@" ELSE arg

(***************************************************************************)
(* SchemaLoader (schemaloader.py).  SchemaLoader._map is a dict: a         *)
(* sequence of entries [k, v] with distinct keys, in insertion order.      *)
(* A location string is a sequence of tokens: a scheme ("http:"), a host   *)
(* ("//h"), "/" and the names of a path.  A location given to the loader   *)
(* is None, a str, a pathlib.Path or a JSONDataLoader, each a record of    *)
(* the shape of the JSON values.                                           *)
(***************************************************************************)
keys(d) == {d[i].k : i \in 1..Len(d)}
getitem(d, k) == d[CHOOSE i \in 1..Len(d) : d[i].k = k].v
\* d[k] = v: a new key is appended, a known key keeps its place
setitem(d, k, v) ==
    IF k \in keys(d) THEN [d EXCEPT ![CHOOSE i \in 1..Len(d) : d[i].k = k].v = v]
    ELSE Append(d, [k |-> k, v |-> v])

Loader(cls, src) == [t |-> cls, s |-> src, items |-> <<>>]
Exc(kind) == [t |-> "raise", s |-> <<kind>>, items |-> <<>>]
NoExc == [t |-> "none", s |-> <<>>, items |-> <<>>]
isinstance_JSONDataLoader(loc) ==
    loc.t \in {"JSONFileLoader", "WebJSONLoader", "JSONResourceLoader"}

\* urllib.parse.urlparse, as far as the loader reads its result
urlparse(url) ==
    LET hasscheme == url # <<>> /\ url[1] \in {"http:", "https:", "resource:", "file:", "urn:"}
        rest == IF hasscheme THEN Tail(url) ELSE url
        hasnetloc == rest # <<>> /\ rest[1] \in {"//", "//h", "//pkg", "//json-schema.org"}
    IN  [scheme |-> IF hasscheme THEN url[1] ELSE "",
         netloc |-> IF hasnetloc /\ rest[1] # "//" THEN rest[1] ELSE "",
         path |-> IF hasnetloc THEN Tail(rest) ELSE rest]

\* JSONFileLoader.__init__: basedir / fpath, refused when it is a directory
\* (/d and /d/extern are the directories of the file system)
JSONFileLoader(fpath, basedir) ==
    LET src == IF basedir # <<>> /\ (fpath = <<>> \/ fpath[1] # "/")
               THEN basedir \o <<"/">> \o fpath
               ELSE fpath
    IN  IF src \in {<<"/", "d">>, <<"/", "d", "/", "extern">>} THEN Exc("FileNotFoundError")
        ELSE Loader("JSONFileLoader", src)

\* WebJSONLoader.__init__ with ensure=False
WebJSONLoader(url) ==
    IF urlparse(url).scheme \notin {"https:", "http:"} THEN Exc("ValueError")
    ELSE Loader("WebJSONLoader", url)

get_json_loader(url) ==
    LET urlp == urlparse(url)
    IN  IF urlp.path = <<>> \/ urlp.path = <<"/">> THEN Exc("ValueError")
        ELSE IF urlp.scheme = "resource:"
        THEN IF urlp.netloc # ""
             THEN Loader("JSONResourceLoader",
                         <<urlp.netloc>> \o (IF urlp.path[1] = "/" THEN Tail(urlp.path)
                                             ELSE urlp.path))
             ELSE IF \A i \in 1..Len(urlp.path) : urlp.path[i] # "/" THEN Exc("ValueError")
             ELSE LET cut == CHOOSE i \in 1..Len(urlp.path) :
                                urlp.path[i] = "/" /\ \A j \in 1..(i - 1) : urlp.path[j] # "/"
                  IN  IF cut = 1 THEN Exc("ValueError")
                      ELSE Loader("JSONResourceLoader",
                                  <<urlp.path[1]>> \o SubSeq(urlp.path, cut + 1, Len(urlp.path)))
        ELSE IF urlp.scheme \in {"https:", "http:"} THEN WebJSONLoader(url)
        ELSE JSONFileLoader(urlp.path, <<>>)

\* SchemaLoader.__init__(urilocs)
SchemaLoader(urilocs) == urilocs

\* the loader SchemaLoader.add_location binds when the identifier is kept
\* as it is given
add_location_raw(map, uri, loc) ==
    LET loc1 == IF Falsy(loc) THEN Str(uri) ELSE loc
        loc2 == IF isinstance_JSONDataLoader(loc1) THEN loc1
                ELSE IF loc1.t = "Path" THEN JSONFileLoader(<<"<class 'pathlib.Path'>">>, <<>>)
                ELSE get_json_loader(loc1.s)
    IN  IF loc2.t = "raise" THEN [map |-> map, exc |-> loc2]
        ELSE [map |-> setitem(map, uri, loc2), exc |-> NoExc]

\* SchemaLoader.add_location; for a Path the code takes str(Path), the text
\* of the class, as the name of the file
add_location(map, uri, loc) ==
    LET uri1 == rstrip(uri)
        loc1 == IF Falsy(loc) THEN Str(uri1) ELSE loc
        loc2 == IF isinstance_JSONDataLoader(loc1) THEN loc1
                ELSE IF loc1.t = "Path" THEN JSONFileLoader(<<"<class 'pathlib.Path'>">>, <<>>)
                ELSE get_json_loader(loc1.s)
    IN  IF loc2.t = "raise" THEN [map |-> map, exc |-> loc2]
        ELSE [map |-> setitem(map, uri1, loc2), exc |-> NoExc]

RECURSIVE add_locations_from(_, _, _)
\* `for uri in urifiles`, from the i-th entry on; an exception ends the loop
\* with the entries before it added
add_locations_from(map, urifiles, i) ==
    IF i > Len(urifiles) THEN [map |-> map, exc |-> NoExc]
    ELSE LET r == add_location(map, urifiles[i].k, urifiles[i].v)
         IN  IF r.exc # NoExc THEN r ELSE add_locations_from(r.map, urifiles, i + 1)

\* SchemaLoader.add_locations
add_locations(map, urifiles) == add_locations_from(map, urifiles, 1)

\* SchemaLoader.copy_locations_from
copy_locations_from(map, loader) == add_locations(map, loader)

\* outcomes of a lookup
Got(v) == [how |-> "return", v |-> v]
Failed(kind) == [how |-> "raise", v |-> Exc(kind)]
Nothing == [how |-> "none", v |-> NoExc]

\* SchemaLoader.locate: str() of what the identifier is bound to
locate(map, uri) ==
    IF uri \in keys(map) THEN Got(Str(getitem(map, uri).s)) ELSE Failed("KeyError")

\* SchemaLoader.load_schema: the bound loader is called; what it reads is
\* the document at its source
SchemaLoader_load_schema(map, uri) ==
    IF uri \notin keys(map) THEN Failed("KeyError")
    ELSE IF ~isinstance_JSONDataLoader(getitem(map, uri)) THEN Failed("TypeError")
    ELSE Got(getitem(map, uri))

\* no SchemaLoader operation in progress
LIdle == [op |-> "idle", uri |-> <<>>, loc |-> None, urifiles |-> <<>>, before |-> <<>>]


(***************************************************************************)
(* The location file readers (location.py).  The content of a file is      *)
(* given by what json.load makes of it (`parse`: "bad" when it is not      *)
(* JSON, else the type of the top-level value; for a dict its "$schema",   *)
(* "$id" and "id" properties and its other properties, `pairs`) and by     *)
(* its lines, each a sequence of characters: " " is white space, "#" the   *)
(* comment sign, anything else a piece of a word.                          *)
(***************************************************************************)
NoProp == [t |-> "absent", s |-> <<>>, items |-> <<>>]
DictOf(pairs) == [t |-> "dict", s |-> <<>>, items |-> pairs]
Content(parse, sid, dollar_id, id, pairs, lines) ==
    [parse |-> parse, sid |-> sid, dollar_id |-> dollar_id, id |-> id, pairs |-> pairs,
     lines |-> lines]
NoFile == Content("nofile", NoProp, NoProp, NoProp, <<>>, <<>>)

\* parse_mappings_asjson: json.load(fd)
parse_mappings_asjson(fd) ==
    IF fd.parse = "bad" THEN Failed("ValueError")
    ELSE IF fd.parse # "dict" THEN Got([t |-> fd.parse, s |-> <<>>, items |-> <<>>])
    ELSE Got(DictOf((IF fd.sid = NoProp THEN <<>> ELSE <<[k |-> <<"$schema">>, v |-> fd.sid]>>)
                    \o (IF fd.dollar_id = NoProp THEN <<>>
                        ELSE <<[k |-> <<"$id">>, v |-> fd.dollar_id]>>)
                    \o (IF fd.id = NoProp THEN <<>> ELSE <<[k |-> <<"id">>, v |-> fd.id]>>)
                    \o fd.pairs))

Whitespace == {" ", "\t", "\n"}

\* str.strip()
RECURSIVE strip(_)
strip(line) ==
    IF line # <<>> /\ line[1] \in Whitespace THEN strip(Tail(line))
    ELSE IF line # <<>> /\ line[Len(line)] \in Whitespace
    THEN strip(SubSeq(line, 1, Len(line) - 1))
    ELSE line

\* str.split(): the words between runs of white space
RECURSIVE split(_)
split(line) ==
    LET l == strip(line)
    IN  IF l = <<>> THEN <<>>
        ELSE LET n == IF \E i \in 1..Len(l) : l[i] \in Whitespace
                      THEN CHOOSE i \in 1..Len(l) :
                              l[i] \in Whitespace /\ \A j \in 1..(i - 1) : l[j] \notin Whitespace
                      ELSE Len(l) + 1
             IN  <<SubSeq(l, 1, n - 1)>> \o split(SubSeq(l, n, Len(l)))

\* parse_mappings_astxt read as if a line were examined as it is given,
\* without line.strip()
RECURSIVE parse_mappings_astxt_nostrip(_, _, _)
parse_mappings_astxt_nostrip(lines, i, out) ==
    IF i > Len(lines) THEN Got(DictOf(out))
    ELSE LET line == lines[i]
         IN  IF Len(line) = 0 \/ line[1] = "#"
             THEN parse_mappings_astxt_nostrip(lines, i + 1, out)
             ELSE IF Len(split(line)) < 2 THEN Failed("ValueError")
             ELSE parse_mappings_astxt_nostrip(lines, i + 1,
                      setitem(out, split(line)[1], Str(split(line)[2])))

\* the loop of parse_mappings_astxt from line i on, out being the mapping
\* built so far
RECURSIVE parse_mappings_astxt_from(_, _, _)
parse_mappings_astxt_from(lines, i, out) ==
    IF i > Len(lines) THEN Got(DictOf(out))
    ELSE LET line == strip(lines[i])
         IN  IF Len(line) = 0 \/ line[1] = "#"
             THEN parse_mappings_astxt_from(lines, i + 1, out)
             ELSE IF Len(split(line)) < 2 THEN Failed("ValueError")
             ELSE parse_mappings_astxt_from(lines, i + 1,
                      setitem(out, split(line)[1], Str(split(line)[2])))

parse_mappings_astxt(fd) == parse_mappings_astxt_from(fd.lines, 1, <<>>)

\* os.path.splitext(locfile)[1][1:]
splitext(locfile) ==
    IF locfile # <<>> /\ locfile[Len(locfile)] = ".json" THEN "json"
    ELSE IF locfile # <<>> /\ locfile[Len(locfile)] = ".txt" THEN "txt"
    ELSE IF locfile # <<>> /\ locfile[Len(locfile)] = ".yaml" THEN "yaml"
    ELSE ""

\* os.path.dirname
RECURSIVE dirname(_)
dirname(p) ==
    IF p = <<>> THEN <<>>
    ELSE IF p[Len(p)] = "/" THEN (IF Len(p) = 1 THEN p ELSE SubSeq(p, 1, Len(p) - 1))
    ELSE dirname(SubSeq(p, 1, Len(p) - 1))

\* os.path.abspath, the working directory being /cwd
abspath(p) ==
    IF p = <<>> THEN <<"/", "cwd">>
    ELSE IF p[1] = "/" THEN p
    ELSE <<"/", "cwd", "/">> \o p

\* str.rstrip('/')
RECURSIVE rstrip_sep(_)
rstrip_sep(p) ==
    IF p # <<>> /\ p[Len(p)] = "/" THEN rstrip_sep(SubSeq(p, 1, Len(p) - 1)) ELSE p

\* the location a mapping file gives, made absolute against baseurl
resolve_location(loc, baseurl) ==
    LET locurl == urlparse(loc)
        local(u) == u.scheme = "" \/ (u.scheme = "file:" /\ u.netloc = "")
        loc1 == IF local(locurl) /\ baseurl # <<>>
                   /\ ~(locurl.path # <<>> /\ locurl.path[1] = "/")
                THEN baseurl \o <<"/">> \o locurl.path
                ELSE loc
        locurl1 == urlparse(loc1)
    IN  IF local(locurl1) THEN abspath(locurl1.path) ELSE loc1

RECURSIVE resolve_locations(_, _, _)
resolve_locations(out, i, baseurl) ==
    IF i > Len(out) THEN out
    ELSE resolve_locations([out EXCEPT ![i].v = Str(resolve_location(out[i].v.s, baseurl))],
                           i + 1, baseurl)

\* LocationReader.read(locfile, fmt, baseurl) of a reader constructed with
\* self_baseurl, fd being what open(locfile) gives
LocationReader_read(self_baseurl, locfile, fd, fmt, baseurl) ==
    LET baseurl1 == IF baseurl # None THEN baseurl
                    ELSE IF self_baseurl # None THEN self_baseurl
                    ELSE Str(abspath(dirname(locfile)))
        baseurl2 == rstrip_sep(baseurl1.s)
        fmt1 == IF fmt = "" THEN splitext(locfile) ELSE fmt
        fmt2 == IF fmt1 = "" THEN "txt" ELSE fmt1
        out == IF fmt2 = "json" THEN parse_mappings_asjson(fd) ELSE parse_mappings_astxt(fd)
    IN  IF fmt2 \notin {"json", "txt"} THEN Failed("RuntimeError")
        ELSE IF fd = NoFile THEN Failed("FileNotFoundError")
        ELSE IF out.how = "raise" THEN out
        ELSE IF out.v.t # "dict" THEN Failed("AttributeError")
        ELSE Got(DictOf(resolve_locations(out.v.items, 1, baseurl2)))

\* read_loc_file(locfile, fmt, basedir)
read_loc_file(locfile, fd, fmt, basedir) ==
    LocationReader_read(IF Falsy(basedir) THEN None ELSE basedir, locfile, fd, fmt, None)

\* no stream being parsed
PIdle == [op |-> "idle", locfile |-> <<>>, fmt |-> "", baseurl |-> None, out |-> Nothing]

(***************************************************************************)
(* DirectorySchemaCache and SchemaLoader.from_directory (schemaloader.py). *)
(* The directory is a sequence of files [name, content] in the order       *)
(* os.walk lists them, the files of the directory itself before those of   *)
(* its subdirectories; a name is relative to the directory, its extension  *)
(* a token of its own.                                                     *)
(***************************************************************************)
SCHEMA_LOCATION_FILE == <<"schemaLocation", ".json">>
File(name, content) == [name |-> name, content |-> content]

\* os.path.join
join(dir, name) == IF name # <<>> /\ name[1] = "/" THEN name ELSE dir \o <<"/">> \o name

\* os.path.exists(os.path.join(dir, name)) and open() of it
exists(fs, name) == \E i \in 1..Len(fs) : fs[i].name = name
open(fs, name) ==
    IF exists(fs, name) THEN fs[CHOOSE i \in 1..Len(fs) : fs[i].name = name].content
    ELSE NoFile

\* open(name, "w") and writing content: a new file is listed first
write(fs, name, content) ==
    IF exists(fs, name)
    THEN [fs EXCEPT ![CHOOSE i \in 1..Len(fs) : fs[i].name = name].content = content]
    ELSE <<File(name, content)>> \o fs

\* jsonschema.validators.meta_schemas, a URIDict: identifiers are compared
\* after urlsplit(uri).geturl(), which drops an empty fragment
Draft07 == <<"http:", "//json-schema.org", "/", "draft-07", "/", "schema">>
meta_schemas == {Draft07}
normalize(uri) ==
    IF uri # <<>> /\ FirstHash(uri) = Len(uri) THEN SubSeq(uri, 1, Len(uri) - 1) ELSE uri

\* DirectorySchemaCache._read_id: the identifier the file declares
_read_id(content) ==
    IF content.parse = "bad" THEN Failed("NotASchemaError")
    ELSE IF content.parse # "dict" THEN Failed("NotASchemaError")
    ELSE IF content.sid = NoProp THEN Failed("NotASchemaError")
    ELSE IF content.sid.t # "str" THEN Failed("TypeError")
    ELSE IF normalize(content.sid.s) \notin meta_schemas THEN Failed("NotASchemaError")
    ELSE IF content.dollar_id # NoProp THEN Got(content.dollar_id)
    ELSE IF content.id # NoProp THEN Got(content.id)
    ELSE Got(None)

\* DirectorySchemaCache.open_file
open_file(dir, fs, filename) ==
    LET filepath == join(dir, filename)
        r == _read_id(open(fs, filename))
    IN  IF r.how = "raise" THEN r
        ELSE IF Falsy(r.v) THEN Got(Str(<<"file:", "//">> \o filepath))
        ELSE r

\* str.endswith(".json")
endswith_json(name) == name # <<>> /\ name[Len(name)] = ".json"

\* DirectorySchemaCache._iterfiles from file i on: the (file, id) pairs
\* yielded, and the exception that ended the walk, if any
RECURSIVE _iterfiles_from(_, _, _, _, _)
_iterfiles_from(dir, fs, recurse, i, out) ==
    IF i > Len(fs) THEN [items |-> out, exc |-> NoExc]
    ELSE IF ~endswith_json(fs[i].name) \/ (~recurse /\ \E j \in 1..Len(fs[i].name) : fs[i].name[j] = "/")
    THEN _iterfiles_from(dir, fs, recurse, i + 1, out)
    ELSE LET r == open_file(dir, fs, fs[i].name)
         IN  IF r.how = "return"
             THEN _iterfiles_from(dir, fs, recurse, i + 1,
                                  Append(out, [file |-> fs[i].name, id |-> r.v.s]))
             ELSE IF r.v = Exc("NotASchemaError")
             THEN _iterfiles_from(dir, fs, recurse, i + 1, out)
             ELSE [items |-> out, exc |-> r.v]

_iterfiles(dir, fs, recurse) == _iterfiles_from(dir, fs, recurse, 1, <<>>)

\* DirectorySchemaCache.discover: (id, loader) pairs
discover(dir, fs, deep) ==
    LET it == _iterfiles(dir, fs, deep)
    IN  [items |-> [i \in 1..Len(it.items) |->
                       [id |-> it.items[i].id, loc |-> JSONFileLoader(it.items[i].file, dir)]],
         exc |-> it.exc]

\* DirectorySchemaCache.locations
RECURSIVE locations_from(_, _, _, _, _)
locations_from(dir, items, absolute, i, out) ==
    IF i > Len(items) THEN out
    ELSE locations_from(dir, items, absolute, i + 1,
             setitem(out, rstrip(items[i].id),
                     Str(IF absolute THEN join(dir, items[i].file) ELSE items[i].file)))

locations(dir, fs, absolute, recursive) ==
    LET it == _iterfiles(dir, fs, recursive)
    IN  IF it.exc # NoExc THEN [how |-> "raise", v |-> it.exc]
        ELSE Got(DictOf(locations_from(dir, it.items, absolute, 1, <<>>)))

\* json.dump(locs, fd, separators=(",", ": "), indent=4): the lines written
json_dump_lines(locs) ==
    IF locs = <<>> THEN << <<"{", "}">> >>
    ELSE << <<"{">> >>
         \o [i \in 1..Len(locs) |->
                <<" ", " ", " ", " ", "\"">> \o locs[i].k \o <<"\"", ":", " ", "\"">>
                \o locs[i].v.s \o (IF i < Len(locs) THEN <<"\"", ",">> ELSE <<"\"">>)]
         \o << <<"}">> >>

\* DirectorySchemaCache.save_locations: the directory afterwards
save_locations(dir, fs, outfile, absolute, recursive) ==
    LET locs == locations(dir, fs, absolute, recursive)
    IN  IF locs.how = "raise" THEN [fs |-> fs, exc |-> locs.v]
        ELSE [fs |-> write(fs, outfile,
                           Content("dict", NoProp, NoProp, NoProp, locs.v.items,
                                   json_dump_lines(locs.v.items))),
              exc |-> NoExc]

\* SchemaLoader.load_locations
load_locations(map, fs, dir, filename, basedir) ==
    LET locs == read_loc_file(join(dir, filename), open(fs, filename), "", basedir)
    IN  IF locs.how = "raise" THEN [map |-> map, exc |-> locs.v]
        ELSE add_locations(map, locs.v.items)

\* SchemaLoader.from_location_file(locpath) for a file of the directory
from_location_file(fs, dir, filename, basedir) ==
    load_locations(SchemaLoader(<<>>), fs, dir, filename, basedir)

\* the loop of from_directory over the schemas the walk yields: an
\* exception that ends the walk is raised after the schemas before it are added
RECURSIVE add_discovered(_, _, _)
add_discovered(map, found, i) ==
    IF i > Len(found.items) THEN [map |-> map, exc |-> found.exc]
    ELSE LET next(r) == IF r.exc # NoExc THEN r ELSE add_discovered(r.map, found, i + 1)
         IN  next(add_location(map, found.items[i].id, found.items[i].loc))

\* from_directory when the schemas are discovered although a manifest exists
from_directory_discovering(dir, fs, ensure_locfile, locfile, recursive) ==
    LET made(out) == [map |-> out.map, exc |-> out.exc, fs |-> fs]
    IN  made(add_discovered(SchemaLoader(<<>>), discover(dir, fs, recursive), 1))

\* SchemaLoader.from_directory: the loader made, the exception raised
\* instead, and the directory afterwards
from_directory(dir, fs, ensure_locfile, locfile, recursive) ==
    IF exists(fs, locfile)
    THEN LET made(out) == [map |-> out.map, exc |-> out.exc, fs |-> fs]
         IN  made(load_locations(SchemaLoader(<<>>), fs, dir, locfile, Str(dir)))
    ELSE LET ensured(out) ==
                 IF out.exc # NoExc \/ ~ensure_locfile
                 THEN [map |-> out.map, exc |-> out.exc, fs |-> fs]
                 ELSE LET written(saved) ==
                              [map |-> out.map, exc |-> saved.exc, fs |-> saved.fs]
                      IN  written(save_locations(dir, fs, locfile, FALSE, TRUE))
         IN  ensured(add_discovered(SchemaLoader(<<>>), discover(dir, fs, recursive), 1))

\* PackageResourceSchemaCache._iterschemas from file i on, the files of the
\* package being those under the directory and the glob "*": the (file, id)
\* pairs yielded, and the exception that ended the walk, if any.  The
\* branches for a file that is not a property map or has no "$schema" read
\* self.loggger, an attribute the cache does not have
RECURSIVE _iterschemas(_, _, _, _)
_iterschemas(fs, recursive, i, out) ==
    IF i > Len(fs) THEN [items |-> out, exc |-> NoExc]
    ELSE IF ~recursive /\ \E j \in 1..Len(fs[i].name) : fs[i].name[j] = "/"
    THEN _iterschemas(fs, recursive, i + 1, out)
    ELSE LET schema == fs[i].content
             id == IF schema.dollar_id # NoProp /\ ~Falsy(schema.dollar_id)
                   THEN schema.dollar_id
                   ELSE IF schema.id # NoProp THEN schema.id
                   ELSE None
         IN  IF schema.parse = "bad" THEN _iterschemas(fs, recursive, i + 1, out)
             ELSE IF schema.parse # "dict" THEN [items |-> out, exc |-> Exc("AttributeError")]
             ELSE IF schema.sid = NoProp THEN [items |-> out, exc |-> Exc("AttributeError")]
             ELSE _iterschemas(fs, recursive, i + 1,
                               Append(out, [file |-> fs[i].name, id |-> id]))

\* PackageResourceSchemaCache.discover: (id, loader) pairs
PackageResourceSchemaCache_discover(pkg, fs, deep) ==
    LET it == _iterschemas(fs, deep, 1, <<>>)
    IN  [items |-> [i \in 1..Len(it.items) |->
                       [id |-> it.items[i].id,
                        loc |-> Loader("JSONResourceLoader", <<pkg>> \o it.items[i].file)]],
         exc |-> it.exc]

\* the loop of from_resource_cache over the schemas the walk yields;
\* add_location takes rstrip of the identifier, which only a str has
RECURSIVE add_resources(_, _, _)
add_resources(map, found, i) ==
    IF i > Len(found.items) THEN [map |-> map, exc |-> found.exc]
    ELSE IF found.items[i].id.t # "str" THEN [map |-> map, exc |-> Exc("AttributeError")]
    ELSE LET next(r) == IF r.exc # NoExc THEN r ELSE add_resources(r.map, found, i + 1)
         IN  next(add_location(map, found.items[i].id.s, found.items[i].loc))

\* SchemaLoader.from_resource_cache(pkg, locfile=locfile, recursive=recursive)
\* for the package whose resources are the files fs of dir
from_resource_cache(pkg, dir, fs, locfile, recursive) ==
    IF exists(fs, locfile)
    THEN load_locations(SchemaLoader(<<>>), fs, dir, locfile, Str(<<"resource:", pkg>>))
    ELSE add_resources(SchemaLoader(<<>>),
                       PackageResourceSchemaCache_discover(pkg, fs, recursive), 1)

\* no directory operation in progress
DIdle == [op |-> "idle", ensure_locfile |-> FALSE, recursive |-> FALSE, locfile |-> <<>>,
          before |-> <<>>]

(***************************************************************************)
(* The inputs of the model.                                                *)
(***************************************************************************)
Prefixes == {"$", "@"}
CtorArgs == {Absent, NoneArg, "$"}
Vals == {0, 1}

\* the location registry the validator is constructed with
LoaderMap == (UA :> SchemaA) @@ (UC :> SchemaBad)

\* extension marker values: every sequence of up to MaxIds identifiers, two
\* sequences with an item that is not a string, an object and a bare string
UriLists == UNION {[1..n -> {UA, UM}] : n \in 0..MaxIds}
StrList(us) == List([i \in 1..Len(us) |-> Str(us[i])])
MarkerValues ==
    {StrList(us) : us \in UriLists}
    \cup {List(<<Num>>), List(<<Str(UA), Num>>), Dict, Str(UA)}
KidMarkers == {StrList(<<UA>>), Str(UA)}

Prop(present, key, value) == IF present THEN key :> value ELSE <<>>

Kids(p) ==
    UNION {{[i \in 1..n |-> Obj("/applicability/" \o ToString(i - 1), 1,
                                 (p \o EXTSCHEMAS) :> ms[i], <<>>)] :
              ms \in [1..n -> KidMarkers]} : n \in 0..MaxKids}

\* documents without extension markers, for every way of naming a base schema
PlainDocs ==
    {Obj("/", v, Prop(b.t # "none", p \o SCHEMATAG, b), <<>>) :
        <<p, b, v>> \in Prefixes \X {None, Str(<<>>), Str(UA), Str(UM), Str(UC)} \X Vals}

\* documents of base schema urn:a with extension markers
MarkedDocs ==
    UNION {{Obj("/", v,
                (p \o SCHEMATAG) :> Str(UA)
                @@ Prop(x, "id", Str(<<"https://data.nist.gov/od/dm/enhanced-json-schema/v0.1">>))
                @@ (p \o EXTSCHEMAS) :> m,
                ks) :
              <<v, x, m, ks>> \in Vals \X BOOLEAN \X MarkerValues \X Kids(p)} : p \in Prefixes}

\* the arguments load_schema is called with
LoadArgs ==
    {<<SchemaA, None>>, <<SchemaA2, None>>, <<SchemaA2, Str(UA)>>, <<SchemaBad, None>>,
     <<SchemaBad, Str(UA)>>, <<SchemaNoId, None>>}

Instances == PlainDocs \cup MarkedDocs

Idle == [op |-> "idle", instance |-> Obj("/", 0, <<>>, <<>>), minimally |-> FALSE,
         strict |-> FALSE, schemauri |-> None, raiseex |-> FALSE, schemauris |-> <<>>,
         schema |-> SchemaNoId, uri |-> None,
         before |-> [validators |-> <<>>, schemaRegistry |-> <<>>, loader_map |-> <<>>]]

\* the orchestrator's state when an operation is called
Before == [validators |-> validators, schemaRegistry |-> schemaRegistry,
           loader_map |-> loader_map]

Init ==
    /\ ejsprefix \in CtorArgs
    /\ epfx = init_epfx(ejsprefix)
    /\ loader_map = LoaderMap
    /\ schemaRegistry = <<>>
    /\ validators = <<>>
    /\ call = Idle
    /\ result = NoResult
    /\ log = <<>>
    /\ overridden = {}
    /\ self_map = <<>> /\ other_map = <<>> /\ lcall = LIdle /\ lresult = Nothing
    /\ files = <<>> /\ dcall = DIdle /\ dresult = Nothing
    /\ stream = NoFile /\ parsed = PIdle

Validate ==
    /\ call.op = "idle"
    /\ \E instance \in Instances, minimally, strict, raiseex \in BOOLEAN :
       \E schemauri \in IF instance \in PlainDocs THEN {None, Str(UA)}
                         ELSE IF instance.kids = <<>> /\ instance.val = 0
                         THEN {None, Str(UM)}
                         ELSE {None} :
          LET r == validate(epfx, validators, schemaRegistry, loader_map, instance,
                            minimally, strict, schemauri, raiseex)
          IN  /\ call' = [Idle EXCEPT !.op = "validate", !.instance = instance,
                                      !.minimally = minimally, !.strict = strict,
                                      !.schemauri = schemauri, !.raiseex = raiseex,
                                      !.before = Before]
              /\ result' = r.result
              /\ validators' = r.validators
              /\ log' = r.log
    /\ UNCHANGED <<ejsprefix, epfx, loader_map, schemaRegistry, overridden>>
    /\ UNCHANGED <<loaderVars, dirVars, locVars>>

ValidateAgainst ==
    /\ call.op = "idle"
    /\ \E instance \in {Obj("/", v, <<>>, <<>>) : v \in Vals},
          schemauris \in UNION {[1..n -> {UA, UM, UC, UF}] : n \in 0..MaxIds},
          strict \in BOOLEAN :
          LET r == validate_against(validators, <<>>, schemaRegistry, loader_map,
                                    instance, schemauris, strict)
          IN  /\ call' = [Idle EXCEPT !.op = "validate_against", !.instance = instance,
                                      !.schemauris = schemauris, !.strict = strict,
                                      !.before = Before]
              /\ result' = Returned(r.out)
              /\ validators' = r.validators
              /\ log' = r.log
    /\ UNCHANGED <<ejsprefix, epfx, loader_map, schemaRegistry, overridden>>
    /\ UNCHANGED <<loaderVars, dirVars, locVars>>

LoadSchema ==
    /\ call.op = "idle"
    /\ \E args \in LoadArgs :
          LET schema == args[1]
              uri == args[2]
              r == load_schema(schemaRegistry, schema, uri)
          IN  /\ call' = [Idle EXCEPT !.op = "load_schema", !.schema = schema, !.uri = uri,
                                      !.before = Before]
              /\ result' = r.result
              /\ schemaRegistry' = r.schemaRegistry
              /\ log' = r.log
              /\ overridden' = IF r.result = ReturnedNone
                               THEN overridden \cup ((DOMAIN schemaRegistry) \cap {rstrip(r.uri)})
                               ELSE overridden
    /\ UNCHANGED <<ejsprefix, epfx, loader_map, validators>>
    /\ UNCHANGED <<loaderVars, dirVars, locVars>>

\* the caller takes the outcome of the finished operation
TakeResult ==
    /\ call.op # "idle"
    /\ call' = Idle
    /\ result' = NoResult
    /\ log' = <<>>
    /\ UNCHANGED <<ejsprefix, epfx, loader_map, schemaRegistry, validators, overridden>>
    /\ UNCHANGED <<loaderVars, dirVars, locVars>>

Next == Validate \/ ValidateAgainst \/ LoadSchema \/ TakeResult

Spec == Init /\ [][Next]_vars

\* a validator nothing is done with
ValidatorIdle ==
    /\ ejsprefix = Absent
    /\ epfx = init_epfx(ejsprefix)
    /\ loader_map = LoaderMap
    /\ schemaRegistry = <<>>
    /\ validators = <<>>
    /\ call = Idle
    /\ result = NoResult
    /\ log = <<>>
    /\ overridden = {}

(***************************************************************************)
(* The schema loader on its own: a SchemaLoader constructed from a         *)
(* mapping, its operations called one at a time, and a second loader       *)
(* whose locations are copied into it.                                     *)
(***************************************************************************)
IX == <<"urn:", "x">>
IY == <<"urn:", "y">>
Hash(u) == u \o <<"#">>

Entry(k, v) == [k |-> k, v |-> v]

InitLoader ==
    /\ ValidatorIdle
    /\ files = <<>> /\ dcall = DIdle /\ dresult = Nothing
    /\ stream = NoFile /\ parsed = PIdle
    /\ self_map \in {SchemaLoader(urilocs) :
                      urilocs \in {<<>>, <<Entry(Hash(IX), Str(<<"a.json">>))>>}}
    /\ other_map \in
          {SchemaLoader(urilocs) :
             urilocs \in
               { <<Entry(IX, Loader("JSONFileLoader", <<"/", "d", "/", "o.json">>)),
                   Entry(IY, Loader("WebJSONLoader", <<"http:", "//h", "/", "q">>))>>,
                 <<Entry(Hash(IX), Loader("JSONFileLoader", <<"/", "d", "/", "o.json">>))>>,
                 <<Entry(IX, Loader("JSONFileLoader", <<"/", "d", "/", "o.json">>)),
                   Entry(Hash(IX), Loader("JSONFileLoader", <<"/", "d", "/", "p.json">>))>>,
                 <<Entry(IY, Str(<<"http:", "//h">>))>> }}
    /\ lcall = LIdle
    /\ lresult = Nothing

\* what a mutating operation leaves: None, or the exception it raised
Outcome(r, v) == IF r.exc = NoExc THEN Got(v) ELSE [how |-> "raise", v |-> r.exc]

\* add_location of an identifier with up to two "#", with no location, a
\* relative file, a URL, a URL without a path, a Path, a loader, a
\* directory, a resource of a package and a package without a resource
AddLocation ==
    /\ lcall.op = "idle"
    /\ \E uri \in {IX, Hash(IX), Hash(Hash(IX)), IY},
          loc \in {None, Str(<<"a.json">>), Str(<<"http:", "//h", "/", "p">>),
                   Str(<<"http:", "//h">>), [t |-> "Path", s |-> <<"/", "d", "/", "b.json">>, items |-> <<>>],
                   Loader("JSONFileLoader", <<"/", "d", "/", "c.json">>), Str(<<"/", "d">>),
                   Str(<<"resource:", "//pkg", "/", "s.json">>), Str(<<"resource:", "pkg">>)} :
          LET r == add_location(self_map, uri, loc)
          IN  /\ lcall' = [LIdle EXCEPT !.op = "add_location", !.uri = uri, !.loc = loc,
                                        !.before = self_map]
              /\ self_map' = r.map
              /\ lresult' = Outcome(r, None)
    /\ UNCHANGED <<other_map, validatorVars, dirVars, locVars>>

AddLocations ==
    /\ lcall.op = "idle"
    /\ \E urifiles \in
            UNION {{u \in [1..n -> {Entry(k, v) : k \in {IX, Hash(IX), IY},
                                                 v \in {Str(<<"a.json">>),
                                                        Str(<<"http:", "//h", "/", "p">>)}}] :
                      \A i, j \in 1..n : i # j => u[i].k # u[j].k} :
                   n \in 1..MaxEntries} :
          LET r == add_locations(self_map, urifiles)
          IN  /\ lcall' = [LIdle EXCEPT !.op = "add_locations", !.urifiles = urifiles,
                                        !.before = self_map]
              /\ self_map' = r.map
              /\ lresult' = Outcome(r, None)
    /\ UNCHANGED <<other_map, validatorVars, dirVars, locVars>>

CopyLocationsFrom ==
    /\ lcall.op = "idle"
    /\ LET r == copy_locations_from(self_map, other_map)
       IN  /\ lcall' = [LIdle EXCEPT !.op = "copy_locations_from", !.urifiles = other_map,
                                     !.before = self_map]
           /\ self_map' = r.map
           /\ lresult' = Outcome(r, None)
    /\ UNCHANGED <<other_map, validatorVars, dirVars, locVars>>

Locate ==
    /\ lcall.op = "idle"
    /\ \E uri \in {IX, Hash(IX), IY, Hash(IY)} :
          /\ lcall' = [LIdle EXCEPT !.op = "locate", !.uri = uri, !.before = self_map]
          /\ lresult' = locate(self_map, uri)
    /\ UNCHANGED <<self_map, other_map, validatorVars, dirVars, locVars>>

LoaderLoadSchema ==
    /\ lcall.op = "idle"
    /\ \E uri \in {IX, Hash(IX), IY, Hash(IY)} :
          /\ lcall' = [LIdle EXCEPT !.op = "load_schema", !.uri = uri, !.before = self_map]
          /\ lresult' = SchemaLoader_load_schema(self_map, uri)
    /\ UNCHANGED <<self_map, other_map, validatorVars, dirVars, locVars>>

\* the caller takes the outcome of the finished loader operation
LoaderTakeResult ==
    /\ lcall.op # "idle"
    /\ lcall' = LIdle
    /\ lresult' = Nothing
    /\ UNCHANGED <<self_map, other_map, validatorVars, dirVars, locVars>>

NextLoader ==
    \/ AddLocation \/ AddLocations \/ CopyLocationsFrom \/ Locate \/ LoaderLoadSchema
    \/ LoaderTakeResult

SpecLoader == InitLoader /\ [][NextLoader]_vars

(***************************************************************************)
(* A directory of schema files: loaders are made of it with                *)
(* from_directory and from_location_file, its schemas are discovered and   *)
(* its manifest is written with save_locations and removed again.          *)
(***************************************************************************)
DirPath == <<"/", "d">>
SchemaFile(sid, dollar_id, id) == Content("dict", sid, dollar_id, id, <<>>, <<>>)

\* what a file with a .json name may hold: text that is not JSON, a list,
\* a data file, a file with an unknown "$schema", a file with a null
\* "$schema", and schemas declaring their identifier with "$id", with a
\* trailing "#", with "id", or not at all
FileContents ==
    { Content("bad", NoProp, NoProp, NoProp, <<>>, <<>>),
      Content("list", NoProp, NoProp, NoProp, <<>>, <<>>),
      SchemaFile(NoProp, Str(IX), NoProp),
      SchemaFile(Str(<<"urn:", "zz">>), Str(IX), NoProp),
      SchemaFile(None, Str(IY), NoProp),
      SchemaFile(Str(Draft07), Str(IX), NoProp),
      SchemaFile(Str(Hash(Draft07)), Str(Hash(IX)), NoProp),
      SchemaFile(Str(Draft07), NoProp, Str(IY)),
      SchemaFile(Str(Draft07), NoProp, NoProp) }

\* the names files may have, in the order of the walk
Pool == << <<"a", ".json">>, <<"b", ".json">>, <<"n", ".txt">>,
           <<"extern", "/", "c", ".json">> >>
RECURSIVE listing(_, _)
listing(c, i) ==
    IF i > Len(Pool) THEN <<>>
    ELSE (IF c[i] = NoFile THEN <<>> ELSE <<File(Pool[i], c[i])>>) \o listing(c, i + 1)

Listings ==
    { listing(c, 1) :
        c \in { c \in [1..Len(Pool) -> FileContents \cup {NoFile}] :
                  /\ \A i \in 1..Len(Pool) :
                        endswith_json(Pool[i])
                        \/ c[i] \in {SchemaFile(Str(Draft07), Str(IY), NoProp), NoFile}
                  /\ Cardinality({i \in 1..Len(Pool) : c[i] # NoFile}) <= MaxFiles } }

\* the names a manifest is given: the default, and one without extension
ManifestNames == {SCHEMA_LOCATION_FILE, <<"locations">>}
Manifest(pairs) == Content("dict", NoProp, NoProp, NoProp, pairs, json_dump_lines(pairs))
\* a directory of at most MaxFiles files, with no manifest, with a JSON
\* manifest under the default name, or with a text manifest
InitDir ==
    /\ ValidatorIdle
    /\ self_map = <<>> /\ other_map = <<>> /\ lcall = LIdle /\ lresult = Nothing
    /\ stream = NoFile /\ parsed = PIdle
    /\ files \in Listings
                \cup {<<m>> \o fs :
                       m \in { File(SCHEMA_LOCATION_FILE,
                                    Manifest(<<Entry(Hash(IX), Str(<<"m", ".json">>))>>)),
                               File(SCHEMA_LOCATION_FILE,
                                    Manifest(<<Entry(IY, Str(<<"/", "e", "/", "y", ".json">>)),
                                               Entry(IX, Str(<<"extern", "/", "c", ".json">>))>>)),
                               File(<<"locations">>,
                                    Content("bad", NoProp, NoProp, NoProp, <<>>,
                                            << <<"#", " ", "m">>,
                                               <<"urn:", "y", " ", "a", ".json">> >>)) },
                       fs \in Listings}
    /\ dcall = DIdle
    /\ dresult = Nothing

FromDirectory ==
    /\ dcall.op = "idle"
    /\ \E ensure_locfile, recursive \in BOOLEAN, locfile \in ManifestNames :
          \E r \in {from_directory(DirPath, files, ensure_locfile, locfile, recursive)} :
              /\ dcall' = [DIdle EXCEPT !.op = "from_directory",
                                        !.ensure_locfile = ensure_locfile,
                                        !.recursive = recursive, !.locfile = locfile,
                                        !.before = files]
              /\ files' = r.fs
              /\ dresult' = Outcome(r, DictOf(r.map))
    /\ UNCHANGED <<validatorVars, loaderVars, locVars>>

FromLocationFile ==
    /\ dcall.op = "idle"
    /\ \E locfile \in ManifestNames :
          /\ dcall' = [DIdle EXCEPT !.op = "from_location_file", !.locfile = locfile,
                                    !.before = files]
          /\ \E r \in {from_location_file(files, DirPath, locfile, None)} :
                dresult' = Outcome(r, DictOf(r.map))
    /\ UNCHANGED <<files, validatorVars, loaderVars, locVars>>

\* the loader filled from DirectorySchemaCache(dir).discover(deep)
Discover ==
    /\ dcall.op = "idle"
    /\ \E deep \in BOOLEAN :
          \E out \in {add_discovered(SchemaLoader(<<>>), discover(DirPath, files, deep), 1)} :
              /\ dcall' = [DIdle EXCEPT !.op = "discover", !.recursive = deep,
                                        !.before = files]
              /\ dresult' = Outcome(out, DictOf(out.map))
    /\ UNCHANGED <<files, validatorVars, loaderVars, locVars>>

SaveLocations ==
    /\ dcall.op = "idle"
    /\ \E outfile \in ManifestNames, recursive \in BOOLEAN :
          \E r \in {save_locations(DirPath, files, outfile, FALSE, recursive)} :
              /\ dcall' = [DIdle EXCEPT !.op = "save_locations", !.recursive = recursive,
                                        !.locfile = outfile, !.before = files]
              /\ files' = r.fs
              /\ dresult' = Outcome(r, None)
    /\ UNCHANGED <<validatorVars, loaderVars, locVars>>

\* the files of the directory are the resources of the package "pkg"
FromResourceCache ==
    /\ dcall.op = "idle"
    /\ \E locfile \in ManifestNames, recursive \in BOOLEAN :
          \E r \in {from_resource_cache("pkg", DirPath, files, locfile, recursive)} :
              /\ dcall' = [DIdle EXCEPT !.op = "from_resource_cache",
                                        !.recursive = recursive, !.locfile = locfile,
                                        !.before = files]
              /\ dresult' = Outcome(r, DictOf(r.map))
    /\ UNCHANGED <<files, validatorVars, loaderVars, locVars>>

\* os.remove of a manifest, as the tests do between calls
RemoveManifest ==
    /\ dcall.op = "idle"
    /\ \E locfile \in ManifestNames :
          /\ exists(files, locfile)
          /\ files' = SelectSeq(files, LAMBDA f : f.name # locfile)
    /\ UNCHANGED <<dcall, dresult, validatorVars, loaderVars, locVars>>

\* the caller takes the outcome of the finished directory operation
DirTakeResult ==
    /\ dcall.op # "idle"
    /\ dcall' = DIdle
    /\ dresult' = Nothing
    /\ UNCHANGED <<files, validatorVars, loaderVars, locVars>>

NextDir ==
    \/ FromDirectory \/ FromLocationFile \/ Discover \/ SaveLocations \/ RemoveManifest
    \/ FromResourceCache \/ DirTakeResult

SpecDir == InitDir /\ [][NextDir]_vars

(***************************************************************************)
(* A location file on its own: its content is parsed by either parser, or  *)
(* read by a LocationReader under the name it has.                         *)
(***************************************************************************)
\* the lines of at most MaxLine characters: spaces, "#" and two letters
Lines == UNION {[1..n -> {" ", "#", "a", "b"}] : n \in 0..MaxLine}

\* a text file of one line, or of one line before or after a mapping, a
\* comment or a word alone; or a JSON document: a property map, a list, a
\* string, a number or null
InitLoc ==
    /\ ValidatorIdle
    /\ self_map = <<>> /\ other_map = <<>> /\ lcall = LIdle /\ lresult = Nothing
    /\ files = <<>> /\ dcall = DIdle /\ dresult = Nothing
    /\ stream \in
          {Content("bad", NoProp, NoProp, NoProp, <<>>, ls) :
             ls \in {<<l>> : l \in Lines}
                    \cup UNION {{<<l, m>>, <<m, l>>} :
                                l \in Lines,
                                m \in { <<"a", " ", "/", "x", ".json">>, <<"#", " ", "a">>,
                                        <<"b">> }}}
          \cup { Manifest(<<>>),
                 Manifest(<<Entry(IX, Str(<<"x", ".json">>))>>),
                 Manifest(<<Entry(Hash(IX), Str(<<"/", "e", "/", "x", ".json">>)),
                            Entry(IY, Str(<<"http:", "//h", "/", "p">>))>>),
                 Content("list", NoProp, NoProp, NoProp, <<>>, << <<"[", "]">> >>),
                 Content("str", NoProp, NoProp, NoProp, <<>>,
                         << <<"\"", "a", " ", "b", "\"">> >>),
                 Content("int", NoProp, NoProp, NoProp, <<>>, << <<"5">> >>),
                 Content("null", NoProp, NoProp, NoProp, <<>>, << <<"null">> >>) }
    /\ parsed = PIdle

ParseMappingsAsTxt ==
    /\ parsed.op = "idle"
    /\ parsed' = [PIdle EXCEPT !.op = "parse_mappings_astxt",
                               !.out = parse_mappings_astxt(stream)]
    /\ UNCHANGED <<stream, validatorVars, loaderVars, dirVars>>

ParseMappingsAsJson ==
    /\ parsed.op = "idle"
    /\ parsed' = [PIdle EXCEPT !.op = "parse_mappings_asjson",
                               !.out = parse_mappings_asjson(stream)]
    /\ UNCHANGED <<stream, validatorVars, loaderVars, dirVars>>

\* LocationReader().read(locfile, fmt, baseurl)
Read ==
    /\ parsed.op = "idle"
    /\ \E locfile \in { DirPath \o <<"/", "loc", ".json">>, DirPath \o <<"/", "loc", ".txt">>,
                         DirPath \o <<"/", "loc">>, <<"loc", ".yaml">> },
          fmt \in {"", "json", "txt", "yaml"},
          baseurl \in {None, Str(<<"/", "e", "/">>), Str(<<"/">>),
                       Str(<<"http:", "//h", "/", "s">>)} :
          parsed' = [PIdle EXCEPT !.op = "read", !.locfile = locfile, !.fmt = fmt,
                                  !.baseurl = baseurl,
                                  !.out = LocationReader_read(None, locfile, stream, fmt,
                                                              baseurl)]
    /\ UNCHANGED <<stream, validatorVars, loaderVars, dirVars>>

\* the caller takes the outcome
LocTakeResult ==
    /\ parsed.op # "idle"
    /\ parsed' = PIdle
    /\ UNCHANGED <<stream, validatorVars, loaderVars, dirVars>>

NextLoc == ParseMappingsAsTxt \/ ParseMappingsAsJson \/ Read \/ LocTakeResult

SpecLoc == InitLoc /\ [][NextLoc]_vars

(***************************************************************************)
(* The queries on one document: is_extschema_schema of a validator, and    *)
(* the pointer queries of an Instance made of the document.                *)
(***************************************************************************)
\* a property map for every way of declaring an identifier and of owning
\* the marker, the instance documents, and values that are not property maps
InitDoc ==
    /\ ejsprefix \in CtorArgs
    /\ epfx = init_epfx(ejsprefix)
    /\ loader_map = LoaderMap /\ schemaRegistry = <<>> /\ validators = <<>>
    /\ result = NoResult /\ log = <<>> /\ overridden = {}
    /\ self_map = <<>> /\ other_map = <<>> /\ lcall = LIdle /\ lresult = Nothing
    /\ files = <<>> /\ dcall = DIdle /\ dresult = Nothing
    /\ stream = NoFile /\ parsed = PIdle
    /\ \E doc \in Instances
                  \cup {None, Num, Str(UA), List(<<>>), List(<<Str(UA)>>)}
                  \cup {Obj("/", 0,
                             Prop(d.t # "absent", "$id", d) @@ Prop(i.t # "absent", "id", i)
                             @@ Prop(m \in {1, 3}, "$" \o EXTSCHEMAS, List(<<>>))
                             @@ Prop(m \in {2, 3}, "@" \o EXTSCHEMAS, List(<<>>)),
                             <<>>) :
                           <<d, i, m>> \in
                              {NoProp, None, Str(<<>>), Num, Str(UA),
                               Str(<<"https://data.nist.gov/od/dm/json-extension-schemas/v0.2">>)}
                              \X {NoProp, Str(UA),
                                  Str(<<"http://mgi.nist.gov/mgi-json-schema/v0.1">>)}
                              \X (0..3)} :
          call = [op |-> "idle", instance |-> doc, name |-> "", pointer |-> ""]

IsExtschemaSchema ==
    /\ call.op = "idle"
    /\ call' = [call EXCEPT !.op = "is_extschema_schema"]
    /\ result' = [how |-> "return", v |-> is_extschema_schema(epfx, call.instance)]
    /\ UNCHANGED <<ejsprefix, epfx, loader_map, schemaRegistry, validators, log, overridden>>
    /\ UNCHANGED <<loaderVars, dirVars, locVars>>

\* Instance(doc).find_obj_by_prop(name)
FindObjByProp ==
    /\ call.op = "idle"
    /\ "props" \in DOMAIN call.instance
    /\ \E name \in {"$" \o EXTSCHEMAS, "@" \o EXTSCHEMAS, "$" \o SCHEMATAG, "id", "goober"} :
          /\ call' = [call EXCEPT !.op = "find_obj_by_prop", !.name = name]
          /\ result' = [how |-> "return", v |-> find_obj_by_prop(call.instance, name)]
    /\ UNCHANGED <<ejsprefix, epfx, loader_map, schemaRegistry, validators, log, overridden>>
    /\ UNCHANGED <<loaderVars, dirVars, locVars>>

\* Instance(doc).extract(pointer)
Extract ==
    /\ call.op = "idle"
    /\ "props" \in DOMAIN call.instance
    /\ \E pointer \in {"/", "/goober"}
                       \cup {"/applicability/" \o ToString(i) : i \in 0..(MaxKids + 1)} :
          /\ call' = [call EXCEPT !.op = "extract", !.pointer = pointer]
          /\ result' = extract(call.instance, pointer)
    /\ UNCHANGED <<ejsprefix, epfx, loader_map, schemaRegistry, validators, log, overridden>>
    /\ UNCHANGED <<loaderVars, dirVars, locVars>>

\* the caller takes the answer; the document stays
NextDoc ==
    \/ IsExtschemaSchema \/ FindObjByProp \/ Extract
    \/ /\ call.op # "idle"
       /\ call' = [call EXCEPT !.op = "idle", !.name = "", !.pointer = ""]
       /\ result' = NoResult
       /\ UNCHANGED <<ejsprefix, epfx, loader_map, schemaRegistry, validators, log,
                      overridden, loaderVars, dirVars, locVars>>

SpecDoc == InitDoc /\ [][NextDoc]_vars

(***************************************************************************)
(* The command line: cli/validate.py is imported, and Validate.execute     *)
(* runs over the files named on the command line.                          *)
(***************************************************************************)
INVALID == 1
BADSCHEMA == 2
BADINPUTS == 3
UNEXPECTED == 10

\* the loop of Validate.run from file i on: the exit status, or the
\* exception that leaves the loop; the except clause names RefResolutionError,
\* which the tests take MissingSchemaDocument to be a kind of
RECURSIVE run_from(_, _, _, _, _, _)
run_from(opts, lmap, vals, i, anyinvalid, badschema) ==
    IF i > Len(opts.files)
    THEN [how |-> "return",
          v |-> IF badschema THEN BADSCHEMA ELSE IF anyinvalid THEN INVALID ELSE 0]
    ELSE IF opts.files[i] = NoFile
    THEN run_from(opts, lmap, vals, i + 1, anyinvalid, badschema)
    ELSE IF "parse" \in DOMAIN opts.files[i] THEN [how |-> "raise", v |-> "ValueError"]
    ELSE LET next(r) ==
                 IF r.result.how = "return"
                 THEN run_from(opts, lmap, r.validators, i + 1, anyinvalid, badschema)
                 ELSE IF r.result.errs[1].kind
                            \in {"ValidationError", "SchemaError", "MissingSchemaDocument",
                                 "Unresolvable"}
                 THEN run_from(opts, lmap, r.validators, i + 1, TRUE,
                               badschema \/ r.result.errs[1].kind # "ValidationError")
                 ELSE [how |-> "raise", v |-> r.result.errs[1].kind]
         IN  next(validate(opts.epfx, vals, <<>>, lmap, opts.files[i], opts.minimal,
                           opts.strict, opts.docschema, TRUE))

\* Validate.run: loc is absent, a path that does not exist, or the
\* directory of the schemas of LoaderMap
Validate_run(opts) ==
    IF opts.loc = "missing" THEN [how |-> "return", v |-> BADINPUTS]
    ELSE run_from(opts, IF opts.loc = "dir" THEN LoaderMap ELSE <<>>, <<>>, 1, FALSE, FALSE)

\* `import ejsonschema.cli.validate` and then Validate(prog).execute():
\* the import binds the names of its line 8 from those ejsonschema.validate
\* binds, and fails when one is not among them; execute turns any
\* exception of run into the UNEXPECTED status
command_line(opts) ==
    IF {"ExtValidator", "ValidationError", "SchemaError", "RefResolutionError",
        "MissingSchemaDocument"}
       \subseteq {"sys", "os", "json", "Mapping", "urlparse", "unicode", "jsonschema", "jsch",
                  "ValidationError", "SchemaError", "refng", "refngexc", "Unresolvable",
                  "DRAFT202012", "loader", "Instance", "EXTSCHEMAS", "SCHEMATAG",
                  "EXTSCHEMA_URIS", "ExtValidator", "SchemaValidator",
                  "MissingSchemaDocument", "format_path", "exc_to_json"}
    THEN LET status(r) == IF r.how = "raise" THEN [how |-> "return", v |-> UNEXPECTED]
                          ELSE r
         IN  status(Validate_run(opts))
    ELSE [how |-> "raise", v |-> "ImportError"]

\* the command line names up to MaxFiles files: a file that does not
\* exist, one that is not JSON, or a document that is valid, invalid, of
\* an unknown schema, of an invalid schema or of no schema
InitCli ==
    /\ ejsprefix = "$"
    /\ epfx = init_epfx(ejsprefix)
    /\ loader_map = LoaderMap /\ schemaRegistry = <<>> /\ validators = <<>>
    /\ result = NoResult /\ log = <<>> /\ overridden = {}
    /\ self_map = <<>> /\ other_map = <<>> /\ lcall = LIdle /\ lresult = Nothing
    /\ files = <<>> /\ dcall = DIdle /\ dresult = Nothing
    /\ stream = NoFile /\ parsed = PIdle
    /\ \E fs \in UNION {[1..n ->
                            {NoFile, Content("bad", NoProp, NoProp, NoProp, <<>>, <<>>)}
                            \cup {Obj("/", v, Prop(b.t # "none", "$" \o SCHEMATAG, b), <<>>) :
                                    <<b, v>> \in {None, Str(UA), Str(UM), Str(UC)} \X Vals}] :
                         n \in 1..MaxFiles},
          minimal, strict \in BOOLEAN, loc \in {"", "dir", "missing"} :
          call = [op |-> "idle", files |-> fs, minimal |-> minimal, strict |-> strict,
                  docschema |-> None, loc |-> loc, epfx |-> epfx]

CommandLine ==
    /\ call.op = "idle"
    /\ call' = [call EXCEPT !.op = "command_line"]
    /\ result' = command_line(call)
    /\ UNCHANGED <<ejsprefix, epfx, loader_map, schemaRegistry, validators, log, overridden>>
    /\ UNCHANGED <<loaderVars, dirVars, locVars>>

\* the process has ended; the same command line may be given again
NextCli ==
    \/ CommandLine
    \/ /\ call.op # "idle"
       /\ call' = [call EXCEPT !.op = "idle"]
       /\ result' = NoResult
       /\ UNCHANGED <<ejsprefix, epfx, loader_map, schemaRegistry, validators, log,
                      overridden, loaderVars, dirVars, locVars>>

SpecCli == InitCli /\ [][NextCli]_vars

(***************************************************************************)
(* The claims.                                                             *)
(***************************************************************************)
IsValidate == call.op = "validate"
Props == call.instance.props
Schematag == epfx \o SCHEMATAG
Extschemas == epfx \o EXTSCHEMAS
NoOverride == call.schemauri.t = "none"

\* the base schema identifier of the call, and validate_against of the whole
\* instance against it, from the state the call started in
BaseUri == base_schema(epfx, call.instance, call.schemauri).s
BaseRun ==
    validate_against(call.before.validators, <<>>, call.before.schemaRegistry,
                     call.before.loader_map, call.instance, <<BaseUri>>, TRUE)
HasBase == ~Falsy(base_schema(epfx, call.instance, call.schemauri))

MissingBaseSchema == Raised(nobase(Schematag))

\* C1 as stated: validate fails with MissingBaseSchema whenever no
\* schema_override is given and the instance has no <prefix>schema property
C1_AsStated ==
    (IsValidate /\ NoOverride /\ Schematag \notin DOMAIN Props)
    => result = MissingBaseSchema

\* C1 as amended: validate fails with MissingBaseSchema whenever no
\* schema_override is given and the instance has neither a <prefix>schema nor
\* a $schema property, or has them with empty values only; nothing is
\* resolved or evaluated before the failure and the validator cache is left
\* as it was
C1_MissingBaseSchema ==
    (IsValidate /\ NoOverride /\ Falsy(get(Props, Schematag))
        /\ Falsy(get(Props, "$" \o SCHEMATAG)))
    => /\ result = MissingBaseSchema
       /\ log = <<>>
       /\ validators = call.before.validators

C1_Witness ==
    /\ IsValidate /\ NoOverride /\ epfx = "$"
    /\ ("@" \o SCHEMATAG) \in DOMAIN Props
    /\ result = MissingBaseSchema
    /\ validators # <<>>

\* C2: with minimally set, validate uses nothing but the base schema on the
\* whole instance: it enumerates no marked object, resolves no other
\* identifier, and its outcome is that of validate_against(instance, base)
C2_MinimalIgnoresExtensions ==
    (IsValidate /\ call.minimally /\ HasBase)
    => /\ \A i \in 1..Len(log) :
             /\ log[i].ev \in {"retrieve", "check_schema", "iter_errors"}
             /\ log[i].uri = BaseUri
             /\ log[i].at = "/"
       /\ result = IF call.raiseex /\ BaseRun.out # <<>>
                   THEN Raised(BaseRun.out[1])
                   ELSE Returned(BaseRun.out)
       /\ validators = BaseRun.validators

C2_Witness ==
    /\ IsValidate /\ call.minimally /\ call.strict
    /\ Extschemas \in DOMAIN Props
    /\ Props[Extschemas] = List(<<Str(UA), Num>>)
    /\ call.instance.kids # <<>>
    /\ result = Returned(<<>>)

\* the marked objects of the call's instance, in traversal order
Exts == find_extended_objs(call.instance, Extschemas)
MarkerAt(j) == Exts[j][2].props[Extschemas]
PtrAt(j) == Exts[j][1]
IsExtschema == is_extschema_schema(epfx, call.instance)
AllStrings(marker) == marker.t = "list" /\ \A i \in 1..Len(marker.items) : marker.items[i].t = "str"

\* what the call did after it enumerated the marked objects
FindAt == IF \E i \in 1..Len(log) : log[i].ev = "find_extended_objs"
          THEN CHOOSE i \in 1..Len(log) : log[i].ev = "find_extended_objs"
          ELSE 0
ExtLog == IF FindAt = 0 THEN <<>> ELSE SubSeq(log, FindAt + 1, Len(log))
Examined(j) == \E i \in 1..Len(ExtLog) : ExtLog[i].ev = "subtree" /\ ExtLog[i].at = PtrAt(j)
TimesExamined(j) ==
    Cardinality({i \in 1..Len(ExtLog) : ExtLog[i].ev = "subtree" /\ ExtLog[i].at = PtrAt(j)})
Evaluated(j) == \E i \in 1..Len(ExtLog) : ExtLog[i].ev # "subtree" /\ ExtLog[i].at = PtrAt(j)

\* an identifier neither load_schema nor the loader knew when the call began
Unregistered(u) ==
    /\ u \notin DOMAIN call.before.validators
    /\ ~get_or_retrieve(call.before.schemaRegistry, call.before.loader_map,
                        _spliturifrag(u)[1]).found
Occurrences(us, u) == Cardinality({i \in 1..Len(us) : us[i] = u})
Without(us, u) == SelectSeq(us, LAMBDA x : x # u)
ErrorsFor(errs, u, at) == SelectSeq(errs, LAMBDA e : e.ref = u /\ e.on = at)
ErrorsNotFor(errs, u) == SelectSeq(errs, LAMBDA e : e.ref # u)
Processed(u, at) == \E i \in 1..Len(log) : log[i].uri = _spliturifrag(u)[1] /\ log[i].at = at

RECURSIVE ExtensionErrorsFrom(_, _)
\* the errors of validate_against applied to each marked object from the
\* j-th on, with the identifiers of its marker and the caller's strict flag,
\* starting from the validator cache vals
ExtensionErrorsFrom(j, vals) ==
    IF j > Len(Exts) THEN <<>>
    ELSE LET r == validate_against(vals, <<>>, call.before.schemaRegistry,
                                   call.before.loader_map, Exts[j][2],
                                   uris_of(MarkerAt(j).items), call.strict)
         IN  r.out \o ExtensionErrorsFrom(j + 1, r.validators)

EverySubtreeOnce ==
    /\ \A j \in 1..Len(Exts) : TimesExamined(j) = 1
    /\ \A i \in 1..Len(ExtLog) : \E j \in 1..Len(Exts) : ExtLog[i].at = PtrAt(j)
    /\ \A i, k \in 1..Len(ExtLog) :
          (ExtLog[i].ev = "subtree" /\ ExtLog[k].ev = "subtree" /\ i < k) =>
             \E ji, jk \in 1..Len(Exts) :
                 ji < jk /\ ExtLog[i].at = PtrAt(ji) /\ ExtLog[k].at = PtrAt(jk)

CollectsExtensions ==
    /\ result = Returned(BaseRun.out \o ExtensionErrorsFrom(1, BaseRun.validators))
    /\ EverySubtreeOnce

\* C4 as stated: with minimal and raise-on-error off, the result is the base
\* errors followed by the errors of every marked subtree, each validated once
C4_AsStated ==
    (IsValidate /\ ~call.minimally /\ ~call.raiseex /\ HasBase) => CollectsExtensions

\* C4 as amended: the same, for an instance whose extension markers are all
\* sequences of strings
C4_ExtensionsInOrder ==
    (IsValidate /\ ~call.minimally /\ ~call.raiseex /\ HasBase
        /\ \A j \in 1..Len(Exts) : AllStrings(MarkerAt(j)))
    => CollectsExtensions

C4_Witness ==
    /\ IsValidate /\ ~call.minimally /\ ~call.raiseex /\ call.strict
    /\ call.instance.val = 0
    /\ Len(Exts) = 2
    /\ MarkerAt(1) = StrList(<<UA, UM>>)
    /\ MarkerAt(2) = StrList(<<UA>>)
    /\ result = Returned(<<Err("MissingSchemaDocument", "", UM, "", "/"),
                           Err("ValidationError", "keyword 1", UA, "A", "/applicability/0")>>)

Malformed(j) == MarkerAt(j).t # "list" /\ ~(IsExtschema /\ MarkerAt(j).t = "dict")
Declaration(j) == MarkerAt(j).t = "dict" /\ IsExtschema
NotAnArray(e) == e.kind = "ValidationError" /\ e.msg = "invalid value type (not an array)"

\* C5: a marker that is not a sequence makes validate record (or raise) one
\* ValidationError citing the marked object and look at no later subtree;
\* an object-valued marker in an extension-schema-convention document is
\* passed over without an error and the next subtree is looked at
C5_MalformedMarker ==
    IsValidate =>
       \A j \in 1..Len(Exts) :
          /\ (Examined(j) /\ Malformed(j)) =>
                /\ result.how = IF call.raiseex THEN "raise" ELSE "return"
                /\ result.t = IF call.raiseex THEN "error" ELSE "list"
                /\ result.errs # <<>>
                /\ NotAnArray(result.errs[Len(result.errs)])
                /\ result.errs[Len(result.errs)].on = PtrAt(j)
                /\ Cardinality({i \in 1..Len(result.errs) : NotAnArray(result.errs[i])}) = 1
                /\ ~Evaluated(j)
                /\ \A k \in (j + 1)..Len(Exts) : ~Examined(k) /\ ~Evaluated(k)
          /\ (Examined(j) /\ Declaration(j)) =>
                /\ ~Evaluated(j)
                /\ \A i \in 1..Len(result.errs) :
                      NotAnArray(result.errs[i]) => result.errs[i].on # PtrAt(j)
                /\ j < Len(Exts) => Examined(j + 1)

C5_Witness ==
    /\ IsValidate /\ ~call.raiseex
    /\ Len(Exts) = 2
    /\ Declaration(1) /\ Malformed(2)
    /\ Examined(2)
    /\ Len(result.errs) = 2

\* C6: with raise-on-error off, whatever validate returns is the sequence of
\* the errors it accumulated
C6_AsStated ==
    (IsValidate /\ ~call.raiseex /\ result.how = "return") => result.t = "list"

\* the outcome of the same call made with raise-on-error off
Collected ==
    validate(epfx, call.before.validators, call.before.schemaRegistry,
             call.before.loader_map, call.instance, call.minimally, call.strict,
             call.schemauri, FALSE).result

LastExamined ==
    LET i == CHOOSE i \in 1..Len(ExtLog) :
                 ExtLog[i].ev = "subtree"
                 /\ \A k \in (i + 1)..Len(ExtLog) : ExtLog[k].ev # "subtree"
    IN  ExtLog[i].at

\* C7: with raise-on-error on, validate raises the first error there is as
\* soon as there is one: a base-schema error before the marked objects are
\* enumerated, an extension error before a later subtree is looked at; a
\* normal return is the empty sequence
C7_RaiseFirstError ==
    (IsValidate /\ call.raiseex) =>
       /\ result.how = "return" => result = Returned(<<>>)
       /\ (HasBase /\ BaseRun.out # <<>>) =>
             /\ result = Raised(BaseRun.out[1])
             /\ FindAt = 0
       /\ (result.how = "raise" /\ FindAt # 0) =>
             /\ result.errs[1].on = LastExamined
             /\ BaseRun.out = <<>>
       /\ (Collected.t = "list" /\ Collected.errs # <<>>) => result = Raised(Collected.errs[1])
       /\ Collected = Returned(<<>>) => result = Returned(<<>>)

C7_Witness ==
    /\ IsValidate /\ call.raiseex /\ ~call.minimally
    /\ Len(Exts) = 2
    /\ MarkerAt(1) = StrList(<<UA, UM>>)
    /\ result = Raised(Err("MissingSchemaDocument", "", UM, "", "/"))
    /\ Examined(1)
    /\ ~Examined(2)

\* C8 as stated: once load_schema has loaded a schema under an identifier it
\* had loaded a schema under before, every later validate_against naming the
\* identifier evaluates against the schema loaded last
C8_AsStated ==
    call.op = "validate_against" =>
       \A u \in {call.schemauris[i] : i \in 1..Len(call.schemauris)} :
          u \in overridden =>
             /\ validators[u] = schemaRegistry[u]
             /\ \A i \in 1..Len(result.errs) :
                   result.errs[i].ref = u => result.errs[i].by = schemaRegistry[u].name

IsLoad == call.op = "load_schema"
OwnId == IF ~Falsy(get(call.schema.props, "$id")) THEN get(call.schema.props, "$id")
         ELSE get(call.schema.props, "id")
LoadKey == IF ~Falsy(call.uri) THEN call.uri ELSE OwnId
LoadChangedNothing ==
    /\ schemaRegistry = call.before.schemaRegistry
    /\ validators = call.before.validators
    /\ loader_map = call.before.loader_map

\* C9: load_schema fails when it is given no identifier and the body has
\* neither $id nor id, and fails with a schema error when the body violates
\* its meta-schema, in both cases leaving the known schemas and the validator
\* cache as they were; otherwise the body is what the supplied identifier (or
\* else its own id) resolves to afterwards
C9_LoadSchema ==
    IsLoad =>
       /\ Falsy(LoadKey) =>
             /\ result.how = "raise" /\ result.errs[1].kind = "ValueError"
             /\ LoadChangedNothing
       /\ (~Falsy(LoadKey) /\ ~call.schema.ok) =>
             /\ result.how = "raise" /\ result.errs[1].kind = "SchemaError"
             /\ LoadChangedNothing
       /\ (~Falsy(LoadKey) /\ call.schema.ok) =>
             /\ result = ReturnedNone
             /\ get_or_retrieve(schemaRegistry, loader_map, LoadKey.s) =
                   [found |-> TRUE, schema |-> call.schema]
             /\ validators = call.before.validators
             /\ \A u \in DOMAIN call.before.schemaRegistry :
                   u # LoadKey.s => schemaRegistry[u] = call.before.schemaRegistry[u]

C9_Witness ==
    /\ IsLoad /\ call.schema = SchemaBad
    /\ result.how = "raise"
    /\ schemaRegistry = (UA :> SchemaA2)
    /\ validators # <<>>

\* C10 as stated: a validator constructed without a prefix reads the base
\* schema from $schema and looks for the markers under $extensionSchemas
C10_AsStated ==
    (ejsprefix = Absent /\ IsValidate /\ ~call.minimally /\ NoOverride
        /\ result.how = "return"
        /\ ("$" \o SCHEMATAG) \in DOMAIN Props /\ ("$" \o EXTSCHEMAS) \in DOMAIN Props)
    => /\ epfx = "$"
       /\ BaseUri = Props["$" \o SCHEMATAG].s
       /\ \E i \in 1..Len(log) : log[i].ev = "subtree" /\ log[i].at = "/"

(***************************************************************************)
(* The claims about the schema loader (SpecLoader).                        *)
(***************************************************************************)
AddedLocation == lcall.op = "add_location"

\* C11: registering an identifier with a trailing "#" leaves the registry
\* that registering the identifier without it leaves: the same keys, the
\* same binding for the identifier, the same outcome
C11_CanonicalOnRegistration ==
    AddedLocation =>
        LET plain == add_location(lcall.before, rstrip(lcall.uri), lcall.loc)
            hashed == add_location(lcall.before, Hash(rstrip(lcall.uri)), lcall.loc)
        IN  /\ keys(hashed.map) = keys(plain.map)
            /\ hashed = plain
            /\ self_map \in {plain.map, hashed.map}
            /\ lresult = Outcome(hashed, None)
            /\ lresult = Got(None) =>
                  /\ rstrip(lcall.uri) \in keys(self_map)
                  /\ locate(hashed.map, rstrip(lcall.uri)) = locate(plain.map, rstrip(lcall.uri))

\* an identifier registered with its "#" is bound under the identifier alone
C11_Witness ==
    /\ AddedLocation
    /\ lcall.uri = Hash(IX)
    /\ lcall.loc = Str(<<"http:", "//h", "/", "p">>)
    /\ lcall.before = <<>>
    /\ lresult = Got(None)
    /\ keys(self_map) = {IX}
    /\ getitem(self_map, IX) = Loader("WebJSONLoader", <<"http:", "//h", "/", "p">>)

\* the outcome of both lookups of an identifier in a registry
Lookups(map, uri) == <<locate(map, uri), SchemaLoader_load_schema(map, uri)>>

\* C12 as stated: in every registry state reached from an initial mapping by
\* add_location, add_locations and copy_locations_from, looking up an
\* identifier and looking it up with a trailing "#" give the same outcome,
\* and no key of the registry ends in "#"
C12_AsStated ==
    /\ \A k \in keys(self_map) : k = rstrip(k)
    /\ \A uri \in {IX, IY} : Lookups(self_map, Hash(uri)) = Lookups(self_map, uri)
    /\ (lcall.op \in {"locate", "load_schema"} /\ lresult.how = "raise")
          => rstrip(lcall.uri) \notin keys(self_map)

\* C13 as stated: after copy_locations_from every identifier bound in the
\* other loader resolves in this one through the other loader's binding,
\* identifiers bound only in this loader keep their binding, the keys are
\* the union of both key sets, and the other loader is unchanged
C13_AsStated ==
    lcall.op = "copy_locations_from" =>
        /\ \A k \in keys(other_map) : Lookups(self_map, k) = Lookups(other_map, k)
        /\ \A k \in keys(lcall.before) \ keys(other_map) :
              k \in keys(self_map) /\ getitem(self_map, k) = getitem(lcall.before, k)
        /\ keys(self_map) = keys(lcall.before) \cup keys(other_map)
        /\ other_map = lcall.urifiles

\* the loader of the location given in a registration: the loader itself,
\* the file of a Path, the loader get_json_loader makes of a string, the
\* identifier standing for a location that is not given
GivenLoader(uri, loc) ==
    IF isinstance_JSONDataLoader(loc) THEN loc
    ELSE IF loc.t = "Path" THEN JSONFileLoader(loc.s, <<>>)
    ELSE IF Falsy(loc) THEN get_json_loader(rstrip(uri))
    ELSE get_json_loader(loc.s)

\* C14 as stated: a registration binds the canonical identifier to the
\* location given, replacing an earlier binding and leaving the other
\* bindings alone, so that each identifier resolves through its most recent
\* registration and the registry holds one entry per canonical identifier
C14_AsStated ==
    /\ (AddedLocation /\ lresult = Got(None)) =>
          /\ keys(self_map) = keys(lcall.before) \cup {rstrip(lcall.uri)}
          /\ Len(self_map) = Cardinality(keys(self_map))
          /\ getitem(self_map, rstrip(lcall.uri)) = GivenLoader(lcall.uri, lcall.loc)
          /\ \A k \in keys(lcall.before) \ {rstrip(lcall.uri)} :
                getitem(self_map, k) = getitem(lcall.before, k)
    /\ (lcall.op = "add_locations" /\ lresult = Got(None)) =>
          /\ keys(self_map) = keys(lcall.before)
                                \cup {rstrip(lcall.urifiles[i].k) : i \in 1..Len(lcall.urifiles)}
          /\ Len(self_map) = Cardinality(keys(self_map))
          /\ \A i \in 1..Len(lcall.urifiles) :
                (\A j \in (i + 1)..Len(lcall.urifiles) :
                    rstrip(lcall.urifiles[j].k) # rstrip(lcall.urifiles[i].k))
                => getitem(self_map, rstrip(lcall.urifiles[i].k))
                     = GivenLoader(lcall.urifiles[i].k, lcall.urifiles[i].v)

(***************************************************************************)
(* The claims about directories of schemas (SpecDir).                      *)
(***************************************************************************)
CalledFromDirectory == dcall.op = "from_directory"
HadManifest == exists(dcall.before, dcall.locfile)

\* the mapping a manifest lists, read in the form its name selects
Listed(content, name) ==
    IF splitext(name) = "json" THEN parse_mappings_asjson(content).v.items
    ELSE parse_mappings_astxt(content).v.items

\* a location of a manifest, a relative path taken against the directory
AgainstDir(loc) ==
    IF urlparse(loc).scheme = "" /\ ~(loc # <<>> /\ loc[1] = "/")
    THEN DirPath \o <<"/">> \o loc
    ELSE loc

\* the loader made by discovering the schemas of a directory
Discovered(fs, deep) == add_discovered(SchemaLoader(<<>>), discover(DirPath, fs, deep), 1).map

Walked(f, deep) == endswith_json(f.name) /\ (deep \/ \A i \in 1..Len(f.name) : f.name[i] # "/")

\* a file that qualifies as a schema: a property map whose "$schema" is a
\* recognized meta-schema identifier
Qualifies(f) ==
    /\ f.content.parse = "dict"
    /\ f.content.sid.t = "str"
    /\ normalize(f.content.sid.s) \in meta_schemas

\* the identifier of a qualifying file: "$id", else "id", else the file's
\* own location
IdOf(f) ==
    LET declared == IF f.content.dollar_id # NoProp THEN f.content.dollar_id
                    ELSE IF f.content.id # NoProp THEN f.content.id
                    ELSE None
    IN  IF Falsy(declared) THEN <<"file:", "//">> \o DirPath \o <<"/">> \o f.name
        ELSE declared.s

\* C18 as stated: discovery does not fail because of a file that is not a
\* schema; such files are skipped and exactly the qualifying files
\* contribute their identifiers
C18_AsStated ==
    dcall.op = "discover" =>
        /\ dresult.how = "return"
        /\ keys(dresult.v.items)
             = {rstrip(IdOf(dcall.before[i])) :
                  i \in {j \in 1..Len(dcall.before) :
                           Walked(dcall.before[j], dcall.recursive)
                           /\ Qualifies(dcall.before[j])}}

\* C16 as stated: from_directory writes the manifest exactly when
\* ensure_locfile is set and the directory had no manifest of the given
\* name, the file existing afterwards; without ensure_locfile no file is
\* created, and a manifest the directory had is not rewritten
C16_AsStated ==
    CalledFromDirectory =>
        /\ (files # dcall.before) <=> (dcall.ensure_locfile /\ ~HadManifest)
        /\ (dcall.ensure_locfile /\ ~HadManifest) =>
              /\ exists(files, dcall.locfile)
              /\ files = write(dcall.before, dcall.locfile, open(files, dcall.locfile))
        /\ ~dcall.ensure_locfile => files = dcall.before
        /\ HadManifest => files = dcall.before

\* the loader from_location_file makes of the manifest of the directory
RoundTrip == from_location_file(files, DirPath, dcall.locfile, None)

\* C17 as stated: a manifest written from the discovered mapping, by
\* save_locations or by from_directory with ensure_locfile, and read back
\* with from_location_file gives a loader with the identifiers of the loader
\* the discovery itself fills
C17_AsStated ==
    /\ (dcall.op = "save_locations" /\ dresult.how = "return") =>
          /\ RoundTrip.exc = NoExc
          /\ keys(RoundTrip.map) = keys(Discovered(dcall.before, dcall.recursive))
    /\ (CalledFromDirectory /\ dresult.how = "return" /\ dcall.ensure_locfile /\ ~HadManifest) =>
          /\ RoundTrip.exc = NoExc
          /\ keys(RoundTrip.map) = keys(dresult.v.items)

(***************************************************************************)
(* The claims about location files (SpecLoc).                              *)
(***************************************************************************)
ParsedAsTxt == parsed.op = "parse_mappings_astxt"

\* the outcome is that of mapping the lines numbered in at: a failure when
\* one of them has fewer than two words, else the mapping of the first
\* word of each to its second, a later line overriding an earlier one
MapsLines(out, lines, at) ==
    IF \E i \in at : Len(split(lines[i])) < 2
    THEN out = Failed("ValueError")
    ELSE /\ out.how = "return"
         /\ out.v.t = "dict"
         /\ keys(out.v.items) = {split(lines[i])[1] : i \in at}
         /\ Len(out.v.items) = Cardinality(keys(out.v.items))
         /\ \A i \in at :
               (\A j \in at : j > i => split(lines[j])[1] # split(lines[i])[1])
               => getitem(out.v.items, split(lines[i])[1]) = Str(split(lines[i])[2])

\* C19 as stated: the lines that are not blank and do not start with "#"
\* are the ones mapped
C19_AsStated ==
    ParsedAsTxt =>
        MapsLines(parsed.out, stream.lines,
                  {i \in 1..Len(stream.lines) :
                     strip(stream.lines[i]) # <<>> /\ stream.lines[i][1] # "#"})

\* C19: the lines mapped are those that, once the white space around them
\* is removed, are not empty and do not start with "#"; the parse fails
\* with ValueError when one of them has fewer than two words, and the other
\* lines contribute nothing
C19_LineOriented ==
    ParsedAsTxt =>
        MapsLines(parsed.out, stream.lines,
                  {i \in 1..Len(stream.lines) :
                     strip(stream.lines[i]) # <<>> /\ strip(stream.lines[i])[1] # "#"})

\* an indented comment followed by a mapping: only the mapping is read
C19_Witness ==
    /\ ParsedAsTxt
    /\ stream.lines = << <<" ", "#", "b">>, <<"a", " ", "/", "x", ".json">> >>
    /\ parsed.out = Got(DictOf(<<Entry(<<"a">>, Str(<<"/", "x", ".json">>))>>))

\* the stream is read in the structured (JSON) form
ReadAsJson ==
    \/ parsed.op = "parse_mappings_asjson"
    \/ /\ parsed.op = "read"
       /\ parsed.fmt = "json" \/ (parsed.fmt = "" /\ splitext(parsed.locfile) = "json")

\* C20 as stated: reading a JSON location file whose content is not JSON,
\* or whose top-level value is not a property map, fails with ValueError
\* and returns no mapping
C20_AsStated ==
    (ReadAsJson /\ stream.parse # "dict") => parsed.out = Failed("ValueError")

\* a location file read to the end by LocationReader.read
ReadMapping == parsed.op = "read" /\ parsed.out.how = "return"

\* the mapping the file holds, before the locations are resolved
Raw ==
    IF ReadAsJson THEN parse_mappings_asjson(stream).v.items
    ELSE parse_mappings_astxt(stream).v.items

\* the base of a read: the one given, else the directory of the file
BaseOf(locfile, baseurl) == IF baseurl # None THEN baseurl.s ELSE abspath(dirname(locfile))

\* a base directory with a path under it
Under(base, p) == IF base[Len(base)] = "/" THEN base \o p ELSE base \o <<"/">> \o p

\* C21 as stated: the identifiers read are those of the file; a location
\* with a scheme other than file: is returned unchanged, a relative path
\* is returned as the absolute local path under the base, and an absolute
\* local path is returned as it is
C21_AsStated ==
    ReadMapping =>
        /\ keys(parsed.out.v.items) = keys(Raw)
        /\ \A i \in 1..Len(Raw) :
              LET loc == Raw[i].v.s
                  got == getitem(parsed.out.v.items, Raw[i].k).s
              IN  IF urlparse(loc).scheme \notin {"", "file:"} THEN got = loc
                  ELSE IF loc # <<>> /\ loc[1] = "/" THEN got = loc
                  ELSE urlparse(loc).scheme = ""
                       => /\ got = Under(BaseOf(parsed.locfile, parsed.baseurl), loc)
                          /\ got[1] = "/"

\* the answer of is_extschema_schema for the document
AskedIsExtschema == call.op = "is_extschema_schema"
IsMap(doc) == "props" \in DOMAIN doc
Recognized(v) == v.t = "str" /\ v.s \in EXTSCHEMA_URIS
OwnsMarker(doc) == (epfx \o EXTSCHEMAS) \in DOMAIN doc.props

\* C22 as stated: the answer is true exactly for a property map that owns
\* the marker and whose `$id`, or `id` when it has no `$id`, is recognized
C22_AsStated ==
    AskedIsExtschema =>
        /\ result.how = "return"
        /\ result.v = (/\ IsMap(call.instance)
                       /\ Recognized(IF "$id" \in DOMAIN call.instance.props
                                     THEN call.instance.props["$id"]
                                     ELSE get(call.instance.props, "id"))
                       /\ OwnsMarker(call.instance))

\* C22: is_extschema_schema returns, and returns true exactly for a
\* property map that owns the <prefix>extensionSchemas property and whose
\* `$id`, or `id` when `$id` is absent or has a false value (null, the
\* empty string), is one of the recognized identifiers; it returns false
\* for every value that is not a property map
C22_RecognizedAndMarked ==
    AskedIsExtschema =>
        /\ result.how = "return"
        /\ result.v = (/\ IsMap(call.instance)
                       /\ Recognized(IF "$id" \in DOMAIN call.instance.props
                                        /\ call.instance.props["$id"].t \notin {"none", "absent"}
                                        /\ call.instance.props["$id"] # Str(<<>>)
                                     THEN call.instance.props["$id"]
                                     ELSE get(call.instance.props, "id"))
                       /\ OwnsMarker(call.instance))

\* a document with an empty `$id`, a recognized `id` and the marker is an
\* extension-schema schema
C22_Witness ==
    /\ AskedIsExtschema
    /\ IsMap(call.instance)
    /\ "$id" \in DOMAIN call.instance.props /\ call.instance.props["$id"] = Str(<<>>)
    /\ Recognized(get(call.instance.props, "id"))
    /\ OwnsMarker(call.instance)
    /\ result.v = TRUE

\* the answer of find_obj_by_prop for the document and the property name
Found == result.v
Searched == call.op = "find_obj_by_prop"

\* the property maps of the document: the root and the objects nested in it
Nodes(doc) == {doc} \cup {doc.kids[i] : i \in 1..Len(doc.kids)}

\* C23: every pointer find_obj_by_prop returns resolves through extract to
\* the node returned with it, that node owns the property, the root is
\* returned under "/" and nothing else is, and every property map of the
\* document that owns the property is returned exactly once
C23_PointerRoundTrip ==
    Searched =>
        /\ \A i \in 1..Len(Found) :
              /\ extract(call.instance, Found[i][1]).how = "return"
              /\ extract(call.instance, Found[i][1]).v = Found[i][2]
              /\ call.name \in DOMAIN Found[i][2].props
              /\ Found[i][2] \in Nodes(call.instance)
              /\ (Found[i][1] = "/") = (Found[i][2] = call.instance)
        /\ \A node \in Nodes(call.instance) :
              call.name \in DOMAIN node.props
              => Cardinality({i \in 1..Len(Found) : Found[i][2] = node}) = 1

\* the property is found on the root and on a nested object
C23_Witness ==
    /\ Searched
    /\ Len(Found) = 2
    /\ Found[1][1] = "/" /\ Found[1][2] = call.instance
    /\ Found[2][2] \in {call.instance.kids[i] : i \in 1..Len(call.instance.kids)}
    /\ extract(call.instance, Found[2][1]).how = "return"

\* the command line has been run
Ran == call.op = "command_line"

\* what validating file f alone does, with the schemas the run has
Alone(f) ==
    validate(call.epfx, <<>>, <<>>, IF call.loc = "dir" THEN LoaderMap ELSE <<>>, f,
             call.minimal, call.strict, call.docschema, TRUE).result
BadInput(f) == f = NoFile \/ "parse" \in DOMAIN f
Fails(f, kinds) ==
    ~BadInput(f) /\ Alone(f).how = "raise" /\ Alone(f).errs[1].kind \in kinds

\* the statuses the files of the command line call for
Demanded ==
    IF call.loc = "missing" THEN {BADINPUTS}
    ELSE {INVALID : i \in {i \in 1..Len(call.files) :
                             Fails(call.files[i], {"ValidationError", "SchemaError"})}}
         \cup {BADSCHEMA : i \in {i \in 1..Len(call.files) :
                                    Fails(call.files[i], {"MissingSchemaDocument",
                                                          "Unresolvable"})}}
         \cup {BADINPUTS : i \in {i \in 1..Len(call.files) : BadInput(call.files[i])}}

\* C24 as stated: the run ends with an exit status; it is one the failures
\* of the files call for (invalid, schema problem, bad input) when there is
\* a failure, and it is 0 only when every file validated
C24_AsStated ==
    Ran =>
        /\ result.how = "return"
        /\ Demanded # {} => result.v \in Demanded
        /\ result.v = 0 => Demanded = {}

(***************************************************************************)
(* C25: the base schema is treated strictly.                               *)
(***************************************************************************)
\* the call names a base schema that neither the cache, the registry nor the
\* loader can produce
BaseUnresolved ==
    /\ IsValidate /\ HasBase
    /\ BaseUri \notin DOMAIN call.before.validators
    /\ ~get_or_retrieve(call.before.schemaRegistry, call.before.loader_map,
                        _spliturifrag(BaseUri)[1]).found

MissingBase ==
    MissingSchemaDocument(_spliturifrag(BaseUri)[1], call.instance)

\* C25 as stated: when the base schema identifier of a validate call cannot
\* be resolved, a MissingSchemaDocument for it is raised or is among the
\* errors returned, whether strict is set or not
C25_AsStated ==
    BaseUnresolved
    => \/ result = Raised(MissingBase)
       \/ /\ result.how = "return" /\ result.t = "list"
          /\ \E i \in 1..Len(result.errs) : result.errs[i] = MissingBase

(***************************************************************************)
(* C26: the validator cache.                                               *)
(***************************************************************************)
Validating == call.op \in {"validate", "validate_against"}
CachedBefore(u) == u \in DOMAIN call.before.validators
Resolved(u) ==
    get_or_retrieve(call.before.schemaRegistry, call.before.loader_map, u)

\* the errors that say an identifier gave no usable schema
NoSchemaKinds == {"MissingSchemaDocument", "Unresolvable", "SchemaError"}

\* the positions of the log where the loader was asked for the identifier u
\* itself, not for the document of a longer identifier with a fragment
LoaderRuns(u) ==
    {i \in 1..Len(log) :
        /\ log[i].ev = "retrieve" /\ log[i].uri = u
        /\ ~(/\ i < Len(log) /\ log[i + 1].ev = "retrieve" /\ log[i + 1].uri # u
             /\ _spliturifrag(log[i + 1].uri)[1] = u)}
SchemaChecks(u) == {i \in 1..Len(log) : log[i].ev = "check_schema" /\ log[i].uri = u}

\* C26: every key of the validator cache is an identifier that was resolved
\* to a schema body that passed its meta-schema check, and the cache holds a
\* validator of that body; an identifier a call reports a missing-schema,
\* unresolvable-fragment or schema-invalid error for gets no cache entry from
\* that call; and for an identifier that is cached, neither the loader nor
\* the meta-schema check runs again: never for one cached before the call,
\* once for one the call caches
C26_ValidatorCache ==
    /\ \A u \in DOMAIN validators :
          /\ validators[u].ok
          /\ get_or_retrieve(schemaRegistry, loader_map, u).found
    /\ Validating =>
          /\ \A u \in DOMAIN validators :
                IF CachedBefore(u)
                THEN /\ validators[u] = call.before.validators[u]
                     /\ LoaderRuns(u) = {} /\ SchemaChecks(u) = {}
                ELSE /\ Resolved(u).found /\ validators[u] = Resolved(u).schema
                     /\ Cardinality(LoaderRuns(u)) = 1
                     /\ Cardinality(SchemaChecks(u)) = 1
          /\ \A i \in 1..Len(result.errs) :
                result.errs[i].kind \in NoSchemaKinds
                => ~(result.errs[i].ref \in DOMAIN validators
                     /\ ~CachedBefore(result.errs[i].ref))

\* validate_against meets an identifier cached by an earlier call and one
\* whose schema is invalid
C26_Witness ==
    /\ call.op = "validate_against" /\ call.schemauris = <<UA, UC>>
    /\ CachedBefore(UA) /\ LoaderRuns(UA) = {} /\ SchemaChecks(UA) = {}
    /\ Cardinality(SchemaChecks(UC)) = 1
    /\ \E i \in 1..Len(result.errs) : result.errs[i].kind = "SchemaError"
    /\ DOMAIN validators = {UA}

(***************************************************************************)
(* C27: an identifier whose fragment is not found.                         *)
(***************************************************************************)
Uris == call.schemauris
DocOf(u) == SubSeq(u, 1, FirstHash(u) - 1)

\* the k-th identifier of the call has a fragment, its document resolves and
\* the fragment is not found in it
FragmentNotFound(k) ==
    /\ call.op = "validate_against" /\ k \in 1..Len(Uris)
    /\ FirstHash(Uris[k]) > 0 /\ FirstHash(Uris[k]) < Len(Uris[k])
    /\ Resolved(DocOf(Uris[k])).found
    /\ ~Resolved(Uris[k]).found

\* validate_against of the identifiers before the k-th, and of those after
\* it with the cache the former left
UpTo(k) ==
    validate_against(call.before.validators, <<>>, call.before.schemaRegistry,
                     call.before.loader_map, call.instance, SubSeq(Uris, 1, k - 1),
                     call.strict)
After(k) ==
    validate_against(UpTo(k).validators, <<>>, call.before.schemaRegistry,
                     call.before.loader_map, call.instance,
                     SubSeq(Uris, k + 1, Len(Uris)), call.strict)

\* C27: for an identifier with a fragment that its resolved document does
\* not hold, validate_against returns, strict or not, what the identifiers
\* before it gave, then one Unresolvable error for it, then what the
\* identifiers after it give; the instance is never evaluated against it and
\* it gets no cache entry
C27_FragmentNotFound ==
    \A k \in 1..MaxIds :
        FragmentNotFound(k)
        => /\ result = Returned(UpTo(k).out \o <<Unresolvable(Uris[k], call.instance)>>
                                \o After(k).out)
           /\ validators = After(k).validators
           /\ Uris[k] \notin DOMAIN validators
           /\ \A i \in 1..Len(log) : ~(log[i].ev = "iter_errors" /\ log[i].uri = Uris[k])

\* without strict, the fragment is not found and the identifier after it is
\* evaluated and cached
C27_Witness ==
    /\ FragmentNotFound(1) /\ ~call.strict
    /\ Uris = <<UF, UA>> /\ ~CachedBefore(UA)
    /\ call.instance.val = 1
    /\ Len(result.errs) = 2
    /\ result.errs[1].kind = "Unresolvable" /\ result.errs[2].kind = "ValidationError"
    /\ UA \in DOMAIN validators

(***************************************************************************)
(* C29: what validate and validate_against leave alone.                    *)
(***************************************************************************)
\* C29: after a validate or validate_against call, returned or raised, the
\* resources of the registry, the locations of the loader and the prefix
\* are those the call began with, and every validator cached before is
\* still cached, unchanged: the cache has at most gained entries
C29_ReadOnly ==
    Validating
    => /\ schemaRegistry = call.before.schemaRegistry
       /\ loader_map = call.before.loader_map
       /\ epfx = init_epfx(ejsprefix)
       /\ \A u \in DOMAIN call.before.validators :
             u \in DOMAIN validators /\ validators[u] = call.before.validators[u]

\* a validate call that raises after the cache has gained the base schema,
\* with a schema loaded into the registry beforehand
C29_Witness ==
    /\ IsValidate /\ result.how = "raise"
    /\ call.before.schemaRegistry # <<>>
    /\ call.before.validators = <<>>
    /\ DOMAIN validators = {UA}

(***************************************************************************)
(* C28: discovery of the schemas of a package.                             *)
(***************************************************************************)
FromPackage == dcall.op = "from_resource_cache" /\ ~HadManifest

\* the files of the package a directory discovery of the same files reads
WalkedFiles == {i \in 1..Len(dcall.before) : Walked(dcall.before[i], dcall.recursive)}

\* the identifier a qualifying file declares, or None
Declares(f) ==
    IF f.content.dollar_id # NoProp THEN f.content.dollar_id
    ELSE IF f.content.id # NoProp THEN f.content.id
    ELSE None

\* C28 as stated: from the files a directory discovery reads, the discovery
\* of a package registers the identifiers of exactly the files that are
\* property maps with a recognized "$schema": for each the "$id", else the
\* "id", else an identifier made for the file; a file that does not qualify
\* is skipped and nothing is raised
C28_AsStated ==
    FromPackage =>
        /\ dresult.how = "return"
        /\ \A i \in WalkedFiles :
              Qualifies(dcall.before[i])
              => IF Falsy(Declares(dcall.before[i]))
                 THEN \E k \in keys(dresult.v.items) :
                         getitem(dresult.v.items, k).s = <<"pkg">> \o dcall.before[i].name
                 ELSE rstrip(Declares(dcall.before[i]).s) \in keys(dresult.v.items)
        /\ \A k \in keys(dresult.v.items) :
              \E i \in WalkedFiles :
                  /\ Qualifies(dcall.before[i])
                  /\ getitem(dresult.v.items, k).s = <<"pkg">> \o dcall.before[i].name

(***************************************************************************)
(* C30: the loader a registration binds.                                   *)
(***************************************************************************)
\* a location string with no usable path: no path at all, or a resource
\* location that names a package only
NoPath(url) ==
    LET urlp == urlparse(url)
    IN  \/ urlp.path = <<>> \/ urlp.path = <<"/">>
        \/ /\ urlp.scheme = "resource:" /\ urlp.netloc = ""
           /\ \A i \in 2..Len(urlp.path) : urlp.path[i] # "/"

\* the loader of a location string, by its scheme
ByScheme(url) ==
    LET urlp == urlparse(url)
        names == SelectSeq(urlp.path, LAMBDA t : t # "/")
    IN  IF NoPath(url) THEN Exc("ValueError")
        ELSE IF urlp.scheme = "resource:"
        THEN Loader("JSONResourceLoader",
                    IF urlp.netloc # "" THEN <<urlp.netloc>> \o names ELSE names)
        ELSE IF urlp.scheme \in {"http:", "https:"} THEN Loader("WebJSONLoader", url)
        ELSE JSONFileLoader(urlp.path, <<>>)

\* the loader of the location given to a registration
LoaderOf(uri, loc) ==
    IF isinstance_JSONDataLoader(loc) THEN loc
    ELSE IF loc.t = "Path" THEN Loader("JSONFileLoader", loc.s)
    ELSE IF loc.t = "none" THEN ByScheme(rstrip(uri))
    ELSE ByScheme(loc.s)

\* C30 as stated: add_location binds the identifier to the loader of the
\* location given: a loader as it is, a Path to a file loader of that path,
\* a string to the loader its scheme selects, the identifier standing for a
\* location that is not given; a string without a path is refused with a
\* ValueError and nothing is bound
C30_AsStated ==
    AddedLocation =>
        IF LoaderOf(lcall.uri, lcall.loc).t = "raise"
        THEN /\ lresult = [how |-> "raise", v |-> LoaderOf(lcall.uri, lcall.loc)]
             /\ self_map = lcall.before
        ELSE /\ lresult = Got(None)
             /\ getitem(self_map, rstrip(lcall.uri)) = LoaderOf(lcall.uri, lcall.loc)

====
